---- MODULE Spec2Model ----
(***************************************************************************)
(* Model of the channel-as-database persistence layer of the queue bot     *)
(* (src/bot.py): the QueueStore, the chat platform's storage channels and  *)
(* messages it writes to, and the handlers of the cooperative event loop   *)
(* that call into the one store object shared by every guild.              *)
(*                                                                         *)
(* A handler runs from one await of a network call to the next in one      *)
(* atomic step.  A network call takes effect at the platform at the        *)
(* moment its caller is resumed; what the caller evaluated before issuing  *)
(* the call (the target channel or message, the payload) is kept in the    *)
(* handler's locals until then.                                            *)
(***************************************************************************)
EXTENDS Integers, Sequences, FiniteSets, TLC

\* ---------------------------------------------------------------- bounds
MaxCalls == 3
MaxRaces == 1
MaxSeqCalls == 5
MaxMember == 2
MaxApiCalls == 4
MaxFaultCalls == 3
MaxPanels == 3
MaxPanelCalls == 4
MaxPassFaults == 1
MaxTargets == 6
MaxNotifyCalls == 1
MaxSendFaults == 2

GuildOrder == <<"g1", "g2">>
KeyOrder == <<"a", "b">>
Guilds == {GuildOrder[i] : i \in 1..Len(GuildOrder)}
Keys == {KeyOrder[i] : i \in 1..Len(KeyOrder)}
Members == 1..MaxMember
Handlers == {"h1", "h2"}
PopArgs == {-1, 0, 1, 2, 3}
CountArgs == {0, 1, 60}
\* the commands that call ensure_store_ready before their store operation
AdminCmds == {"queue_create", "queue_reset", "queue_remove_n"}

\* ------------------------------------------------------ program constants
STORAGE_CHANNEL_NAME == "queue-storage"
INDEX_MESSAGE_PREFIX == "[QUEUE_INDEX]"
DATA_MESSAGE_PREFIX == "[QUEUE_DATA]"
SETTINGS_MESSAGE_PREFIX == "[QUEUE_SETTINGS]"
DEFAULT_LANG == "en"
\* the translation bundles loaded from lang/*.json
STRINGS == {"en", "vi"}
\* language codes a caller may pass: the bundles and one that is not loaded
LangArgs == STRINGS \cup {"xx"}
HistoryLimit == 100
MaxRemoveN == 50

None == 0
NoContent == <<>>

\* ------------------------------------------------------------- encoding
\* A message's content is a sequence of lexical tokens; numbers are written
\* in decimal by IntStr and read back by StrInt.
Digit == <<"0", "1", "2", "3", "4", "5", "6", "7", "8", "9">>
MaxNum == 99

RECURSIVE IntStr(_)
IntStr(n) == IF n < 10 THEN Digit[n + 1] ELSE IntStr(n \div 10) \o Digit[(n % 10) + 1]

Numerals == {IntStr(n) : n \in 0..MaxNum}
NumeralValue == [s \in Numerals |-> CHOOSE n \in 0..MaxNum : IntStr(n) = s]
IsNumeral(s) == s \in Numerals
StrInt(s) == NumeralValue[s]

Range(s) == {s[i] : i \in 1..Len(s)}
Tail2(s) == SubSeq(s, 3, Len(s))

\* json.dumps(list, separators=(",", ":"))
RECURSIVE DumpsItems(_)
DumpsItems(q) ==
    IF q = <<>> THEN <<>>
    ELSE IF Len(q) = 1 THEN <<IntStr(q[1])>>
    ELSE <<IntStr(q[1]), ",">> \o DumpsItems(Tail(q))
DumpsList(q) == <<"[">> \o DumpsItems(q) \o <<"]">>

\* json.dumps(dict, separators=(",", ":")) of the index, in insertion order
RECURSIVE DumpsPairs(_)
DumpsPairs(ix) ==
    IF ix = <<>> THEN <<>>
    ELSE IF Len(ix) = 1 THEN <<ix[1].k, ":", IntStr(ix[1].v)>>
    ELSE <<ix[1].k, ":", IntStr(ix[1].v), ",">> \o DumpsPairs(Tail(ix))
DumpsIndex(ix) == <<"{">> \o DumpsPairs(ix) \o <<"}">>

DumpsSettings(s) == <<"{", "lang", ":", s.lang, "}">>

IndexContent(ix) == <<INDEX_MESSAGE_PREFIX, "\n">> \o DumpsIndex(ix)
DataContent(key, q) == <<DATA_MESSAGE_PREFIX, " ", key, "\n">> \o DumpsList(q)
SettingsContent(s) == <<SETTINGS_MESSAGE_PREFIX, "\n">> \o DumpsSettings(s)

\* content.split("\n", 1)[1]: the tokens after the first newline; Bad when
\* there is none (IndexError)
Bad == <<"!">>
Payload(content) ==
    IF \E i \in 1..Len(content) : content[i] = "\n"
    THEN LET i == CHOOSE i \in 1..Len(content) :
                    content[i] = "\n" /\ \A j \in 1..(i - 1) : content[j] # "\n"
         IN  SubSeq(content, i + 1, Len(content))
    ELSE Bad

\* [int(x) for x in json.loads(raw)]: ok is FALSE when any step raises
RECURSIVE ParseItems(_)
ParseItems(ts) ==
    IF Len(ts) = 1 /\ IsNumeral(ts[1]) THEN [ok |-> TRUE, val |-> <<StrInt(ts[1])>>]
    ELSE IF Len(ts) >= 3 /\ IsNumeral(ts[1]) /\ ts[2] = ","
    THEN LET r == ParseItems(Tail2(ts))
         IN  [ok |-> r.ok, val |-> <<StrInt(ts[1])>> \o r.val]
    ELSE [ok |-> FALSE, val |-> <<>>]
\* int(c) for each character c of a JSON string
RECURSIVE CharInts(_)
CharInts(cs) == IF cs = <<>> THEN <<>> ELSE <<StrInt(cs[1])>> \o CharInts(Tail(cs))
\* json.loads accepts any JSON value and the comprehension iterates whatever
\* it returned: the items of an array, the characters of a string
LoadsList(raw) ==
    IF Len(raw) >= 2 /\ raw[1] = "\"" /\ raw[Len(raw)] = "\""
    THEN LET cs == SubSeq(raw, 2, Len(raw) - 1)
         IN  IF \A i \in 1..Len(cs) : cs[i] \in Range(Digit)
             THEN [ok |-> TRUE, val |-> CharInts(cs)]
             ELSE [ok |-> FALSE, val |-> <<>>]
    ELSE IF Len(raw) < 2 \/ raw[1] # "[" \/ raw[Len(raw)] # "]" THEN [ok |-> FALSE, val |-> <<>>]
    ELSE IF Len(raw) = 2 THEN [ok |-> TRUE, val |-> <<>>]
    ELSE ParseItems(SubSeq(raw, 2, Len(raw) - 1))

\* {k: int(v) for k, v in json.loads(raw).items()}
RECURSIVE ParsePairs(_)
ParsePairs(ts) ==
    IF Len(ts) = 3 /\ ts[2] = ":" /\ IsNumeral(ts[3])
    THEN [ok |-> TRUE, val |-> <<[k |-> ts[1], v |-> StrInt(ts[3])]>>]
    ELSE IF Len(ts) >= 7 /\ ts[2] = ":" /\ IsNumeral(ts[3]) /\ ts[4] = ","
    THEN LET r == ParsePairs(SubSeq(ts, 5, Len(ts)))
         IN  [ok |-> r.ok, val |-> <<[k |-> ts[1], v |-> StrInt(ts[3])]>> \o r.val]
    ELSE [ok |-> FALSE, val |-> <<>>]
LoadsIndex(raw) ==
    IF Len(raw) < 2 \/ raw[1] # "{" \/ raw[Len(raw)] # "}" THEN [ok |-> FALSE, val |-> <<>>]
    ELSE IF Len(raw) = 2 THEN [ok |-> TRUE, val |-> <<>>]
    ELSE ParsePairs(SubSeq(raw, 2, Len(raw) - 1))

\* json.loads(raw) of the settings record, "lang" defaulted when missing
LoadsSettings(raw) ==
    IF Len(raw) = 5 /\ raw[1] = "{" /\ raw[2] = "lang" /\ raw[3] = ":" /\ raw[5] = "}"
    THEN [lang |-> raw[4]]
    ELSE [lang |-> DEFAULT_LANG]

\* ------------------------------------------------------ the index (a dict)
IndexKeys(ix) == {ix[i].k : i \in 1..Len(ix)}
IndexGet(ix, key) == LET i == CHOOSE i \in 1..Len(ix) : ix[i].k = key IN ix[i].v
\* self._index[key] = v: overwrite in place, or insert at the end
IndexSet(ix, key, v) ==
    IF key \in IndexKeys(ix)
    THEN LET i == CHOOSE i \in 1..Len(ix) : ix[i].k = key IN [ix EXCEPT ![i].v = v]
    ELSE Append(ix, [k |-> key, v |-> v])

\* ---------------------------------------------------------------- state
VARIABLES
    index,              \* QueueStore._index: key -> id of the key's Data record
    queues,             \* QueueStore._queues: key -> list of member ids
    settings,           \* QueueStore._settings
    storage_channel,    \* QueueStore.storage_channel (None or a channel id)
    index_message,      \* QueueStore.index_message (None or a message id)
    settings_message,   \* QueueStore.settings_message (None or a message id)
    channels,           \* platform: the "queue-storage" channels, by id, with their guild
    messages,           \* platform: every message, by id, with its channel and content
    hs,                 \* the handlers of the event loop and their locals
    calls,              \* number of handler invocations so far
    known,              \* how many guild, key and member names have appeared so
                        \* far, and how many dispatches found a handler suspended
    arrival,            \* history: per key, members in order of insertion
    ui                  \* platform: the panel messages of the guild's text channels,
                        \* and the command or button handler working on them

vars == <<index, queues, settings, storage_channel, index_message, settings_message,
          channels, messages, hs, calls, known, arrival, ui>>

EmptyDict == [k \in {} |-> <<>>]

NoHandler ==
    [pc |-> "idle", cmd |-> "", guild |-> "", op |-> "", key |-> "", member |-> 0,
     n |-> 0,
     ch |-> None, idx |-> None, stg |-> None, idxContent |-> NoContent,
     stgContent |-> NoContent, iter |-> <<>>, iterLive |-> FALSE, iterBroken |-> FALSE,
     reqCh |-> None, reqMsg |-> None, payload |-> NoContent,
     qRef |-> "none", qLen |-> 0, q0 |-> <<>>, keyKnown |-> FALSE,
     retPos |-> 0, retOk |-> FALSE, removed |-> <<>>, exc |-> "",
     lang |-> "", retLang |-> "", retList |-> <<>>, retShared |-> FALSE,
     failedAt |-> "", pre |-> <<>>]

\* no panel posted, no command at work on the panels, no direct message asked for
NoTask ==
    [pc |-> "idle", cmd |-> "", key |-> "", title |-> <<>>, member |-> 0, count |-> 0,
     panel |-> 0, chans |-> <<>>, todo |-> <<>>, target |-> 0, embed |-> <<>>,
     acked |-> FALSE, early |-> FALSE, edited |-> {}, failed |-> {}, skipped |-> {},
     updated |-> 0, pre |-> <<>>]
NoUi ==
    [panels |-> <<>>, task |-> NoTask, sends |-> <<>>, sem |-> 0, report |-> <<>>,
     calls |-> 0]

InitPcs == {"i_create", "i_hist", "i_sendidx", "i_sendstg", "i_fetch"}
OpPcs == {"e_send", "e_save", "s_fetch", "s_edit", "l_edit"}
RestPcs == {"idle", "done", "raised"}
InFlight == {h \in Handlers : hs[h].pc \notin RestPcs}

Init ==
    /\ index = <<>>
    /\ queues = EmptyDict
    /\ settings = [lang |-> DEFAULT_LANG]
    /\ storage_channel = None
    /\ index_message = None
    /\ settings_message = None
    /\ channels = <<>>
    /\ messages = <<>>
    /\ hs = [h \in Handlers |-> NoHandler]
    /\ calls = 0
    /\ known = [g |-> 0, k |-> 0, m |-> 0, r |-> 0]
    /\ arrival = EmptyDict
    /\ ui = NoUi

\* The whole state as one value, so that the straight-line code between two
\* awaits composes as a chain of operators.
Pack ==
    [index |-> index, queues |-> queues, settings |-> settings,
     storage_channel |-> storage_channel, index_message |-> index_message,
     settings_message |-> settings_message, channels |-> channels,
     messages |-> messages, hs |-> hs, arrival |-> arrival, ui |-> ui]

Commit(S) ==
    /\ index' = S.index
    /\ queues' = S.queues
    /\ settings' = S.settings
    /\ storage_channel' = S.storage_channel
    /\ index_message' = S.index_message
    /\ settings_message' = S.settings_message
    /\ channels' = S.channels
    /\ messages' = S.messages
    /\ hs' = S.hs
    /\ arrival' = S.arrival
    /\ ui' = S.ui

\* ------------------------------------------------------------- platform
\* discord.utils.get(guild.text_channels, name=STORAGE_CHANNEL_NAME): the
\* first channel of that name in the guild, None when there is none
GuildChannels(chs, g) == {c \in 1..Len(chs) : chs[c] = g}
GetStorageChannel(chs, g) ==
    IF GuildChannels(chs, g) = {} THEN None
    ELSE CHOOSE c \in GuildChannels(chs, g) : \A d \in GuildChannels(chs, g) : c <= d

\* ch.history(limit=HistoryLimit, oldest_first=True): ids in ascending order
ChannelMessages(msgs, ch) == {m \in 1..Len(msgs) : msgs[m].ch = ch}
History(msgs, ch) ==
    {m \in ChannelMessages(msgs, ch) :
        Cardinality({o \in ChannelMessages(msgs, ch) : o < m}) < HistoryLimit}
\* the last message of the scan whose content starts with the prefix
LastWithPrefix(msgs, ch, prefix) ==
    LET hit == {m \in History(msgs, ch) :
                    Len(msgs[m].content) > 0 /\ msgs[m].content[1] = prefix}
    IN  IF hit = {} THEN None ELSE CHOOSE m \in hit : \A o \in hit : o <= m

\* channel.fetch_message(id) finds the message only in its own channel
Fetchable(msgs, ch, id) == id \in 1..Len(msgs) /\ msgs[id].ch = ch

\* channel.send(content): the new message gets the next id
Send(S, ch, content) ==
    [S EXCEPT !.messages = Append(@, [ch |-> ch, content |-> content])]
\* message.edit(content=...)
EditMessage(S, id, content) == [S EXCEPT !.messages[id].content = content]

\* ------------------------------------------------- Python object identity
\* dict.get(key, [])
DictGet(d, key) == IF key \in DOMAIN d THEN d[key] ELSE <<>>
\* d[key] = v
DictSet(d, key, v) == [k \in DOMAIN d \cup {key} |-> IF k = key THEN v ELSE d[k]]

\* add() keeps the list object it appended to in its local q and reads
\* len(q) after its awaits.  While that object is still the one stored under
\* the key, qRef is "live" and its length is the stored list's; once the
\* store binds the key to another list object the old one is never changed
\* again, and the handler keeps its length.
FreezeQRefs(S, ks) ==
    [S EXCEPT !.hs = [h \in Handlers |->
        IF S.hs[h].qRef = "live" /\ S.hs[h].key \in ks
        THEN [S.hs[h] EXCEPT !.qRef = "dead", !.qLen = Len(DictGet(S.queues, S.hs[h].key))]
        ELSE S.hs[h]]]

\* self._queues[key] = <a new list>
BindQueue(S, key, q) ==
    LET T == FreezeQRefs(S, {key})
    IN  [T EXCEPT !.queues = DictSet(@, key, q), !.arrival = DictSet(S.queues, key, q)]
\* an init_storage that keeps the queue table it finds
KeepQueues(S) == S
\* self._queues = {}
ClearQueues(S) ==
    LET T == FreezeQRefs(S, Keys)
    IN  [T EXCEPT !.queues = EmptyDict, !.arrival = EmptyDict]

\* init_storage iterates self._index.items() across its awaits.  Inserting a
\* key into the dict it iterates makes its next step raise RuntimeError
\* (dictionary changed size during iteration); rebinding self._index to a new
\* dict leaves it iterating the old one, which nothing changes any more.
BreakIterators(S) ==
    [S EXCEPT !.hs = [h \in Handlers |->
        IF S.hs[h].iterLive THEN [S.hs[h] EXCEPT !.iterBroken = TRUE] ELSE S.hs[h]]]
OrphanIterators(S) ==
    [S EXCEPT !.hs = [h \in Handlers |-> [S.hs[h] EXCEPT !.iterLive = FALSE]]]

\* ------------------------------------------------------ leaving a handler
Outcome(h, pc, exc) ==
    [NoHandler EXCEPT !.pc = pc, !.exc = exc, !.guild = h.guild, !.op = h.op,
                      !.key = h.key, !.member = h.member, !.n = h.n, !.cmd = h.cmd,
                      !.q0 = h.q0, !.keyKnown = h.keyKnown, !.retPos = h.retPos, !.retOk = h.retOk,
                      !.removed = h.removed, !.lang = h.lang, !.retLang = h.retLang,
                      !.retList = h.retList, !.retShared = h.retShared,
                      !.failedAt = h.failedAt, !.pre = h.pre]
Raise(S, me, exc) == [S EXCEPT !.hs[me] = Outcome(S.hs[me], "raised", exc)]
Return(S, me) == [S EXCEPT !.hs[me] = Outcome(S.hs[me], "done", "")]

\* a remove() whose except clause catches every exception
ThrowSwallowed(S, me, exc) ==
    LET T == [S EXCEPT !.hs[me].failedAt = S.hs[me].pc]
    IN  IF T.hs[me].op = "remove" /\ T.hs[me].pc \in {"s_fetch", "s_edit"}
        THEN Return([T EXCEPT !.hs[me].retOk = FALSE], me)
        ELSE Raise(T, me, exc)
\* The awaited call raises exc.  remove() awaits _save_queue inside
\* "try: ... except ValueError: return False"; no other await of the store's
\* operations is inside a try, so the exception leaves the operation.
Throw(S, me, exc) ==
    LET T == [S EXCEPT !.hs[me].failedAt = S.hs[me].pc]
    IN  IF T.hs[me].op = "remove" /\ T.hs[me].pc \in {"s_fetch", "s_edit"} /\ exc = "ValueError"
        THEN Return([T EXCEPT !.hs[me].retOk = FALSE], me)
        ELSE Raise(T, me, exc)

\* ------------------------------------------------------------ QueueStore
\* list.index(x) + 1
PositionIn(q, x) == CHOOSE i \in 1..Len(q) : q[i] = x /\ \A j \in 1..(i - 1) : q[j] # x
\* a remove() that drops the last element, whoever it is
RemovePop(q, x) == SubSeq(q, 1, Len(q) - 1)
\* list.remove(x): drops the first occurrence
RemoveFirst(q, x) ==
    LET i == PositionIn(q, x) IN SubSeq(q, 1, i - 1) \o SubSeq(q, i + 1, Len(q))
Max(a, b) == IF a >= b THEN a ELSE b
Min(a, b) == IF a <= b THEN a ELSE b
\* a clamp that stops one short of the length
ClampShort(n, len) == Max(0, Min(n, len - 1))
\* n = max(0, min(n, len(q)))
Clamp(n, len) == Max(0, Min(n, len))

\* position_of(key, user_id); None when absent
position_of(qs, key, user_id) ==
    LET q == DictGet(qs, key)
    IN  IF user_id \in Range(q) THEN PositionIn(q, user_id) ELSE None
\* get_list(key)
get_list(qs, key) == DictGet(qs, key)
\* count(key)
count(qs, key) == Len(DictGet(qs, key))
\* get_lang()
get_lang(st) == st.lang

\* the operations that only read the cache
ReadOps == {"get_lang", "get_list", "count", "position_of"}

\* a get_list() that hands out the store's own list object
GetListShared(S, me) ==
    Return([S EXCEPT !.hs[me].retList = DictGet(S.queues, S.hs[me].key),
                     !.hs[me].retShared = S.hs[me].key \in DOMAIN S.queues], me)
\* get_list(key) returns list(...): a new list object with the same members
GetList(S, me) ==
    Return([S EXCEPT !.hs[me].retList = get_list(S.queues, S.hs[me].key),
                     !.hs[me].retShared = FALSE], me)

\* get_lang / get_list / count / position_of: no await, the result is returned
ReadBody(S, me) ==
    LET h == S.hs[me] IN
    IF h.op = "get_lang" THEN Return([S EXCEPT !.hs[me].retLang = get_lang(S.settings)], me)
    ELSE IF h.op = "get_list" THEN GetList(S, me)
    ELSE IF h.op = "count" THEN Return([S EXCEPT !.hs[me].retPos = count(S.queues, h.key)], me)
    ELSE Return([S EXCEPT !.hs[me].retPos = position_of(S.queues, h.key, h.member)], me)

\* a set_lang() that stores whatever code it is given
CoerceNone(lang) == lang
\* lang if lang in STRINGS else DEFAULT_LANG
Coerce(lang) == IF lang \in STRINGS THEN lang ELSE DEFAULT_LANG

\* set_lang(lang) up to its await
SetLangStart(S, me) ==
    LET S1 == [S EXCEPT !.settings.lang = Coerce(S.hs[me].lang)]
    IN  IF S1.settings_message = None THEN Return(S1, me)
        ELSE [S1 EXCEPT !.hs[me].pc = "l_edit",
                        !.hs[me].reqMsg = S1.settings_message,
                        !.hs[me].payload = SettingsContent(S1.settings)]

\* set_lang resumed after the edit
SetLangEdited(S, me) == Return(EditMessage(S, S.hs[me].reqMsg, S.hs[me].payload), me)

\* an add() that returns the 0-based index of the new member
AfterSaveZeroBased(S, me) ==
    LET h == S.hs[me] IN
    IF h.op = "add"
    THEN Return([S EXCEPT !.hs[me].retPos =
                    (IF h.qRef = "live" THEN Len(S.queues[h.key]) ELSE h.qLen) - 1], me)
    ELSE IF h.op = "remove"
    THEN Return([S EXCEPT !.hs[me].retOk = TRUE], me)
    ELSE Return(S, me)

\* the rest of add / remove / reset / pop_n after _save_queue returned
AfterSave(S, me) ==
    LET h == S.hs[me] IN
    IF h.op = "add"
    THEN Return([S EXCEPT !.hs[me].retPos =
                    IF h.qRef = "live" THEN Len(S.queues[h.key]) ELSE h.qLen], me)
    ELSE IF h.op = "remove"
    THEN Return([S EXCEPT !.hs[me].retOk = TRUE], me)
    ELSE Return(S, me)

\* _save_queue up to its first await
SaveQueueStart(S, me) ==
    LET h == S.hs[me] IN
    IF S.storage_channel = None THEN AfterSave(S, me)
    ELSE IF h.key \notin IndexKeys(S.index) THEN Raise(S, me, "KeyError")
    ELSE [S EXCEPT !.hs[me].pc = "s_fetch",
                   !.hs[me].reqCh = S.storage_channel,
                   !.hs[me].reqMsg = IndexGet(S.index, h.key)]

\* a _save_queue() that writes the queue as it was when the operation began
SaveQueueFetchedStale(S, me) ==
    [S EXCEPT !.hs[me].pc = "s_edit",
              !.hs[me].payload = DataContent(S.hs[me].key, S.hs[me].q0)]
\* _save_queue resumed with the fetched Data message
SaveQueueFetched(S, me) ==
    LET h == S.hs[me] IN
    IF ~Fetchable(S.messages, h.reqCh, h.reqMsg) THEN Throw(S, me, "NotFound")
    ELSE IF h.key \notin DOMAIN S.queues THEN Raise(S, me, "KeyError")
    ELSE [S EXCEPT !.hs[me].pc = "s_edit",
                   !.hs[me].payload = DataContent(h.key, S.queues[h.key])]

\* _save_queue resumed after the edit
SaveQueueEdited(S, me) ==
    AfterSave(EditMessage(S, S.hs[me].reqMsg, S.hs[me].payload), me)

\* the history variable arrival: a member not in line joins at the end
Arrive(S, key, m) ==
    IF key \in DOMAIN S.arrival /\ m \notin Range(S.arrival[key])
    THEN [S EXCEPT !.arrival[key] = Append(@, m)]
    ELSE S
\* the history variable arrival: a member leaves the line
Depart(S, key, m) ==
    IF key \in DOMAIN S.arrival
    THEN [S EXCEPT !.arrival[key] = SelectSeq(@, LAMBDA x : x # m)]
    ELSE S

\* an add() without the "if user_id in q" test
AddBodyDup(S0, me) ==
    LET h == S0.hs[me]
        S == Arrive(S0, h.key, h.member) IN
    IF h.key \notin DOMAIN S.queues THEN Raise(S, me, "KeyError")
    ELSE SaveQueueStart(
            [S EXCEPT !.queues[h.key] = Append(@, h.member), !.hs[me].qRef = "live"], me)

\* add(key, user_id) after ensure_key returned
AddBody(S0, me) ==
    LET h == S0.hs[me]
        S == Arrive(S0, h.key, h.member) IN
    IF h.key \notin DOMAIN S.queues THEN Raise(S, me, "KeyError")
    ELSE LET q == S.queues[h.key] IN
         IF h.member \in Range(q)
         THEN Return([S EXCEPT !.hs[me].retPos = PositionIn(q, h.member)], me)
         ELSE SaveQueueStart(
                [S EXCEPT !.queues[h.key] = Append(q, h.member),
                          !.hs[me].qRef = "live"], me)

\* a remove() that forgets to call _save_queue
RemoveBodyNoSave(S0, me) ==
    LET h == S0.hs[me]
        S == Depart(S0, h.key, h.member) IN
    IF h.key \notin DOMAIN S.queues THEN Raise(S, me, "KeyError")
    ELSE LET q == S.queues[h.key] IN
         IF h.member \in Range(q)
         THEN Return([S EXCEPT !.queues[h.key] = RemoveFirst(q, h.member),
                               !.hs[me].retOk = TRUE], me)
         ELSE Return([S EXCEPT !.hs[me].retOk = FALSE], me)

\* remove(key, user_id) after ensure_key returned
RemoveBody(S0, me) ==
    LET h == S0.hs[me]
        S == Depart(S0, h.key, h.member) IN
    IF h.key \notin DOMAIN S.queues THEN Raise(S, me, "KeyError")
    ELSE LET q == S.queues[h.key] IN
         IF h.member \in Range(q)
         THEN SaveQueueStart(
                [S EXCEPT !.queues[h.key] = RemoveFirst(q, h.member)], me)
         ELSE Return([S EXCEPT !.hs[me].retOk = FALSE], me)

\* reset(key) after ensure_key returned
ResetBody(S, me) == SaveQueueStart(BindQueue(S, S.hs[me].key, <<>>), me)

\* pop_n(key, n) after ensure_key returned
PopBody(S, me) ==
    LET h == S.hs[me] IN
    IF h.key \notin DOMAIN S.queues THEN Raise(S, me, "KeyError")
    ELSE LET q == S.queues[h.key]
             n == Clamp(h.n, Len(q))
             rest == SubSeq(q, n + 1, Len(q))
         IN  SaveQueueStart(
                [S EXCEPT !.queues[h.key] = rest,
                          !.arrival = DictSet(S.queues, h.key, rest),
                          !.hs[me].removed = SubSeq(q, 1, n)], me)

\* what the caller of ensure_key does when it returns
AfterEnsure(S, me) ==
    LET op == S.hs[me].op IN
    IF op = "add" THEN AddBody(S, me)
    ELSE IF op = "remove" THEN RemoveBody(S, me)
    ELSE IF op = "reset" THEN ResetBody(S, me)
    ELSE IF op = "pop_n" THEN PopBody(S, me)
    ELSE Return(S, me)

\* a _save_index() that does not write
SaveIndexSkip(S, me) == AfterEnsure(S, me)
\* _save_index up to its await
SaveIndexStart(S, me) ==
    IF S.index_message = None THEN AfterEnsure(S, me)
    ELSE [S EXCEPT !.hs[me].pc = "e_save",
                   !.hs[me].reqMsg = S.index_message,
                   !.hs[me].payload = IndexContent(S.index)]

\* _save_index resumed after the edit; ensure_key returns
SaveIndexEdited(S, me) ==
    AfterEnsure(EditMessage(S, S.hs[me].reqMsg, S.hs[me].payload), me)

\* ensure_key(key) up to its first await
EnsureKeyStart(S, me) ==
    LET h == S.hs[me] IN
    IF h.key \in IndexKeys(S.index) THEN AfterEnsure(S, me)
    ELSE IF S.storage_channel = None THEN Raise(S, me, "RuntimeError")
    ELSE [S EXCEPT !.hs[me].pc = "e_send",
                   !.hs[me].reqCh = S.storage_channel,
                   !.hs[me].payload = DataContent(h.key, <<>>)]

\* ensure_key resumed with the Data message it sent
EnsureKeySent(S, me) ==
    LET h == S.hs[me]
        S1 == Send(S, h.reqCh, h.payload)
        id == Len(S1.messages)
        S2 == IF h.key \in IndexKeys(S1.index) THEN S1 ELSE BreakIterators(S1)
        S3 == [S2 EXCEPT !.index = IndexSet(@, h.key, id)]
    IN  SaveIndexStart(BindQueue(S3, h.key, <<>>), me)

\* a store operation is called: the history variables q0 and keyKnown keep
\* get_list(key) and "key in self._index" as they are at the call
CallOp(S, me) ==
    LET T == [S EXCEPT !.hs[me].q0 = get_list(S.queues, S.hs[me].key),
                       !.hs[me].keyKnown = S.hs[me].key \in IndexKeys(S.index)]
    IN  IF T.hs[me].op \in ReadOps THEN ReadBody(T, me)
        ELSE IF T.hs[me].op = "set_lang" THEN SetLangStart(T, me)
        ELSE EnsureKeyStart(T, me)

\* ---------------------------------------------------------- init_storage
\* the locals of init_storage are dropped when it returns
DropInitLocals(h) ==
    [h EXCEPT !.ch = None, !.idx = None, !.stg = None, !.idxContent = NoContent,
              !.stgContent = NoContent, !.iter = <<>>, !.iterLive = FALSE,
              !.iterBroken = FALSE]

\* init_storage returned: a handler that called it through ensure_store_ready
\* goes on with its store operation
InitReturned(S, me) ==
    LET T == [S EXCEPT !.hs[me] = DropInitLocals(@)]
    IN  IF T.hs[me].op = "init" THEN Return(T, me) ELSE CallOp(T, me)

\* init_storage from "self.index_message = idx" to the first fetch_message
InitLoad(S, me) ==
    LET h == S.hs[me]
        ri == LoadsIndex(Payload(h.idxContent))
        newIndex == IF ri.ok THEN ri.val ELSE <<>>
        S1 == [OrphanIterators(S) EXCEPT
                  !.index_message = h.idx,
                  !.settings_message = h.stg,
                  !.index = newIndex,
                  !.settings = LoadsSettings(Payload(h.stgContent))]
        S2 == ClearQueues(S1)
    IN  IF newIndex = <<>> THEN InitReturned(S2, me)
        ELSE [S2 EXCEPT !.hs[me].pc = "i_fetch", !.hs[me].iter = newIndex,
                        !.hs[me].iterLive = TRUE, !.hs[me].iterBroken = FALSE]

\* an init_storage that sends an Index record even when it found one
InitAlwaysSendIndex(S, me) == [S EXCEPT !.hs[me].pc = "i_sendidx"]
\* "if idx is None: ... if stg is None: ..." up to the next await
InitEnsureRecords(S, me) ==
    IF S.hs[me].idx = None THEN [S EXCEPT !.hs[me].pc = "i_sendidx"]
    ELSE IF S.hs[me].stg = None THEN [S EXCEPT !.hs[me].pc = "i_sendstg"]
    ELSE InitLoad(S, me)

\* init_storage(guild) up to its first await
InitStart(S, me) ==
    LET ch == GetStorageChannel(S.channels, S.hs[me].guild)
    IN  IF ch = None THEN [S EXCEPT !.hs[me].pc = "i_create"]
        ELSE [S EXCEPT !.storage_channel = ch, !.hs[me].ch = ch, !.hs[me].pc = "i_hist"]

\* resumed with the channel guild.create_text_channel made
InitCreated(S, me) ==
    LET chs == Append(S.channels, S.hs[me].guild)
    IN  [S EXCEPT !.channels = chs, !.storage_channel = Len(chs),
                  !.hs[me].ch = Len(chs), !.hs[me].pc = "i_hist"]

\* resumed with the channel's history
InitScanned(S, me) ==
    LET ch == S.hs[me].ch
        idx == LastWithPrefix(S.messages, ch, INDEX_MESSAGE_PREFIX)
        stg == LastWithPrefix(S.messages, ch, SETTINGS_MESSAGE_PREFIX)
    IN  InitEnsureRecords(
            [S EXCEPT !.hs[me].idx = idx, !.hs[me].stg = stg,
                      !.hs[me].idxContent =
                          IF idx = None THEN NoContent ELSE S.messages[idx].content,
                      !.hs[me].stgContent =
                          IF stg = None THEN NoContent ELSE S.messages[stg].content], me)

\* resumed with the Index record it sent
InitIndexSent(S, me) ==
    LET S1 == Send(S, S.hs[me].ch, IndexContent(<<>>))
        S2 == [S1 EXCEPT !.hs[me].idx = Len(S1.messages),
                         !.hs[me].idxContent = IndexContent(<<>>)]
    IN  IF S2.hs[me].stg = None THEN [S2 EXCEPT !.hs[me].pc = "i_sendstg"]
        ELSE InitLoad(S2, me)

\* resumed with the Settings record it sent
InitSettingsSent(S, me) ==
    LET c == SettingsContent([lang |-> DEFAULT_LANG])
        S1 == Send(S, S.hs[me].ch, c)
    IN  InitLoad([S1 EXCEPT !.hs[me].stg = Len(S1.messages), !.hs[me].stgContent = c], me)

\* the body of the loop over the index after its await: r is what the try
\* block produced, ok FALSE when anything in it raised
InitLoaded(S, me, r) ==
    LET h == S.hs[me]
        item == Head(h.iter)
        S1 == BindQueue(S, item.k, IF r.ok THEN r.val ELSE <<>>)
    IN  IF h.iterBroken THEN Raise(S1, me, "RuntimeError")
        ELSE IF Len(h.iter) = 1 THEN InitReturned(S1, me)
        ELSE [S1 EXCEPT !.hs[me].iter = Tail(h.iter)]

\* resumed with one key's Data record (or the exception fetching it raised)
InitFetched(S, me) ==
    LET item == Head(S.hs[me].iter)
    IN  InitLoaded(S, me,
            IF Fetchable(S.messages, S.hs[me].ch, item.v)
            THEN LoadsList(Payload(S.messages[item.v].content))
            ELSE [ok |-> FALSE, val |-> <<>>])

\* -------------------------------------------------------------- actions
\* Handlers are interchangeable: a new one takes the first slot at rest.
HandlerNo(h) == IF h = "h1" THEN 1 ELSE 2

\* A handler is dispatched when fewer than limit handlers are suspended; the
\* model stops dispatching after max calls, and after MaxRaces dispatches that
\* found another handler suspended.
CanInvoke(me, limit) ==
    /\ hs[me].pc \in RestPcs
    /\ \A o \in Handlers : hs[o].pc \in RestPcs => HandlerNo(me) <= HandlerNo(o)
    /\ calls < (IF limit = 1 THEN MaxSeqCalls ELSE MaxCalls)
    /\ InFlight # {} => known.r < MaxRaces
    /\ Cardinality(InFlight) < limit

\* Guilds, keys and members are interchangeable names: the first guild to
\* appear is called g1, the first key a, the first member 1, and so on.
GuildChoices == {GuildOrder[i] : i \in 1..Min(known.g + 1, Len(GuildOrder))}
KeyChoices == {KeyOrder[i] : i \in 1..Min(known.k + 1, Len(KeyOrder))}
MemberChoices == 1..Min(known.m + 1, MaxMember)
OrderOf(seq, x) == IF x \in Range(seq) THEN CHOOSE i \in 1..Len(seq) : seq[i] = x ELSE 0

\* The handler's code up to its first await.  What the handlers that returned
\* earlier reported is forgotten at the next dispatch.
Dispatch(me, h0) ==
    LET S == [Pack EXCEPT !.hs = [h \in Handlers |->
                 IF h = me THEN h0
                 ELSE IF hs[h].pc \in RestPcs THEN NoHandler ELSE hs[h]]]
    IN  /\ Commit(IF h0.op = "init" \/ h0.cmd \in AdminCmds
                  THEN InitStart(S, me) ELSE CallOp(S, me))
        /\ calls' = calls + 1
        /\ known' = [g |-> Max(known.g, OrderOf(GuildOrder, h0.guild)),
                     k |-> Max(known.k, OrderOf(KeyOrder, h0.key)),
                     m |-> Max(known.m, h0.member),
                     r |-> IF InFlight # {} THEN known.r + 1 ELSE known.r]

Call(cmd, g, op, k, m, n) ==
    [NoHandler EXCEPT !.cmd = cmd, !.guild = g, !.op = op, !.key = k, !.member = m,
                      !.n = n]

\* on_ready, queue_setup_storage: init_storage(guild)
InvokeSetup(me, limit) ==
    /\ CanInvoke(me, limit)
    /\ \E g \in GuildChoices :
         Dispatch(me, Call("queue_setup_storage", g, "init", "", 0, 0))

\* the Join button (SignupView.signup): add(key, user)
InvokeJoin(me, limit) ==
    /\ CanInvoke(me, limit)
    /\ \E g \in GuildChoices, k \in KeyChoices, m \in MemberChoices :
         Dispatch(me, Call("signup", g, "add", k, m, 0))

\* the Leave button (SignupView.cancel): remove(key, user)
InvokeLeave(me, limit) ==
    /\ CanInvoke(me, limit)
    /\ \E g \in GuildChoices, k \in KeyChoices, m \in MemberChoices :
         Dispatch(me, Call("cancel", g, "remove", k, m, 0))

\* queue_create: ensure_store_ready, then ensure_key(key)
InvokeCreate(me, limit) ==
    /\ CanInvoke(me, limit)
    /\ \E g \in GuildChoices, k \in KeyChoices :
         Dispatch(me, Call("queue_create", g, "ensure_key", k, 0, 0))

\* queue_reset: ensure_store_ready, then reset(key)
InvokeReset(me, limit) ==
    /\ CanInvoke(me, limit)
    /\ \E g \in GuildChoices, k \in KeyChoices :
         Dispatch(me, Call("queue_reset", g, "reset", k, 0, 0))

\* queue_remove_n: ensure_store_ready, count = max(1, min(count, 50)), then
\* pop_n(key, count)
InvokeRemoveN(me, limit) ==
    /\ CanInvoke(me, limit)
    /\ \E g \in GuildChoices, k \in KeyChoices, c \in CountArgs :
         Dispatch(me, Call("queue_remove_n", g, "pop_n", k, 0, Max(1, Min(c, MaxRemoveN))))

\* the store's operations called directly, as its contract allows
CallEnsureKey(me, limit) ==
    /\ CanInvoke(me, limit)
    /\ \E g \in GuildChoices, k \in KeyChoices :
         Dispatch(me, Call("store", g, "ensure_key", k, 0, 0))
CallAdd(me, limit) ==
    /\ CanInvoke(me, limit)
    /\ \E g \in GuildChoices, k \in KeyChoices, m \in MemberChoices :
         Dispatch(me, Call("store", g, "add", k, m, 0))
CallRemove(me, limit) ==
    /\ CanInvoke(me, limit)
    /\ \E g \in GuildChoices, k \in KeyChoices, m \in MemberChoices :
         Dispatch(me, Call("store", g, "remove", k, m, 0))
CallReset(me, limit) ==
    /\ CanInvoke(me, limit)
    /\ \E g \in GuildChoices, k \in KeyChoices :
         Dispatch(me, Call("store", g, "reset", k, 0, 0))
CallPopN(me, limit) ==
    /\ CanInvoke(me, limit)
    /\ \E g \in GuildChoices, k \in KeyChoices, n \in PopArgs :
         Dispatch(me, Call("store", g, "pop_n", k, 0, n))

Resume(me, pc, S) ==
    /\ hs[me].pc = pc
    /\ Commit(S)
    /\ UNCHANGED <<calls, known>>

ResumeCreateChannel(me) == Resume(me, "i_create", InitCreated(Pack, me))
ResumeHistory(me) == Resume(me, "i_hist", InitScanned(Pack, me))
ResumeSendIndex(me) == Resume(me, "i_sendidx", InitIndexSent(Pack, me))
ResumeSendSettings(me) == Resume(me, "i_sendstg", InitSettingsSent(Pack, me))
ResumeFetchData(me) == Resume(me, "i_fetch", InitFetched(Pack, me))
ResumeSendData(me) == Resume(me, "e_send", EnsureKeySent(Pack, me))
ResumeEditIndex(me) == Resume(me, "e_save", SaveIndexEdited(Pack, me))
ResumeFetchQueue(me) == Resume(me, "s_fetch", SaveQueueFetched(Pack, me))
ResumeEditQueue(me) == Resume(me, "s_edit", SaveQueueEdited(Pack, me))

Resumed(me) ==
    \/ ResumeCreateChannel(me)
    \/ ResumeHistory(me)
    \/ ResumeSendIndex(me)
    \/ ResumeSendSettings(me)
    \/ ResumeFetchData(me)
    \/ ResumeSendData(me)
    \/ ResumeEditIndex(me)
    \/ ResumeFetchQueue(me)
    \/ ResumeEditQueue(me)

\* the event loop: the bot's handlers, interleaving at their awaits
Handler(me) ==
    \/ InvokeSetup(me, Cardinality(Handlers))
    \/ InvokeJoin(me, Cardinality(Handlers))
    \/ InvokeLeave(me, Cardinality(Handlers))
    \/ InvokeCreate(me, Cardinality(Handlers))
    \/ InvokeReset(me, Cardinality(Handlers))
    \/ InvokeRemoveN(me, Cardinality(Handlers))
    \/ Resumed(me)
Next == \E me \in Handlers : Handler(me)
Spec == Init /\ [][Next]_vars

\* the store used by one caller at a time: each call returns before the next
StoreCall(me) ==
    \/ InvokeSetup(me, 1)
    \/ CallEnsureKey(me, 1)
    \/ CallAdd(me, 1)
    \/ CallRemove(me, 1)
    \/ CallReset(me, 1)
    \/ CallPopN(me, 1)
    \/ Resumed(me)
SeqNext == \E me \in Handlers : StoreCall(me)
SeqSpec == Init /\ [][SeqNext]_vars

\* ------------------------------------------- the store's whole interface
\* history: the store and the platform as they are when an operation is
\* called, and the operation that returned just before it
Snapshot(me) ==
    [index |-> index, queues |-> queues, settings |-> settings,
     storage_channel |-> storage_channel, index_message |-> index_message,
     settings_message |-> settings_message, channels |-> channels,
     messages |-> messages,
     last |-> [op |-> hs[me].op, guild |-> hs[me].guild, pc |-> hs[me].pc]]

\* one caller at a time, at most max calls
CanCall(me, max) ==
    /\ InFlight = {}
    /\ \A o \in Handlers : HandlerNo(me) <= HandlerNo(o)
    /\ calls < max

\* a store operation takes no guild: it works on whatever init_storage loaded
StoreOp(me, op, g, k, m, n, l) ==
    Dispatch(me, [Call("store", g, op, k, m, n) EXCEPT !.lang = l, !.pre = Snapshot(me)])

ApiInit(me, max) ==
    /\ CanCall(me, max)
    /\ \E g \in GuildChoices : StoreOp(me, "init", g, "", 0, 0, "")
ApiEnsureKey(me, max) ==
    /\ CanCall(me, max)
    /\ \E k \in KeyChoices : StoreOp(me, "ensure_key", "", k, 0, 0, "")
ApiAdd(me, max) ==
    /\ CanCall(me, max)
    /\ \E k \in KeyChoices, m \in MemberChoices :
         StoreOp(me, "add", "", k, m, 0, "")
ApiRemove(me, max) ==
    /\ CanCall(me, max)
    /\ \E k \in KeyChoices, m \in MemberChoices :
         StoreOp(me, "remove", "", k, m, 0, "")
ApiReset(me, max) ==
    /\ CanCall(me, max)
    /\ \E k \in KeyChoices : StoreOp(me, "reset", "", k, 0, 0, "")
ApiPopN(me, max) ==
    /\ CanCall(me, max)
    /\ \E k \in KeyChoices, n \in PopArgs :
         StoreOp(me, "pop_n", "", k, 0, n, "")
ApiSetLang(me, max) ==
    /\ CanCall(me, max)
    /\ \E l \in LangArgs : StoreOp(me, "set_lang", "", "", 0, 0, l)
ApiGetLang(me, max) ==
    /\ CanCall(me, max)
    /\ StoreOp(me, "get_lang", "", "", 0, 0, "")
ApiGetList(me, max) ==
    /\ CanCall(me, max)
    /\ \E k \in KeyChoices : StoreOp(me, "get_list", "", k, 0, 0, "")
ApiCount(me, max) ==
    /\ CanCall(me, max)
    /\ \E k \in KeyChoices : StoreOp(me, "count", "", k, 0, 0, "")
ApiPositionOf(me, max) ==
    /\ CanCall(me, max)
    /\ \E k \in KeyChoices, m \in MemberChoices :
         StoreOp(me, "position_of", "", k, m, 0, "")

\* the caller of get_list appends a member to the list it was given; the
\* store's queue changes with it only when the two are one list object
ChangeReturned(me) ==
    /\ hs[me].pc = "done" /\ hs[me].op = "get_list"
    /\ hs[me].retList = get_list(hs[me].pre.queues, hs[me].key)
    /\ \E m \in Members :
         /\ hs' = [hs EXCEPT ![me].retList = Append(@, m)]
         /\ queues' = IF hs[me].retShared
                       THEN [queues EXCEPT ![hs[me].key] = Append(@, m)]
                       ELSE queues
    /\ UNCHANGED <<index, settings, storage_channel, index_message, settings_message,
                   channels, messages, calls, known, arrival, ui>>

ResumeEditSettings(me) == Resume(me, "l_edit", SetLangEdited(Pack, me))

ApiStep(me) ==
    \/ ApiInit(me, MaxApiCalls)
    \/ ApiEnsureKey(me, MaxApiCalls)
    \/ ApiAdd(me, MaxApiCalls)
    \/ ApiRemove(me, MaxApiCalls)
    \/ ApiReset(me, MaxApiCalls)
    \/ ApiPopN(me, MaxApiCalls)
    \/ ApiSetLang(me, MaxApiCalls)
    \/ ApiGetLang(me, MaxApiCalls)
    \/ ApiGetList(me, MaxApiCalls)
    \/ ApiCount(me, MaxApiCalls)
    \/ ApiPositionOf(me, MaxApiCalls)
    \/ ChangeReturned(me)
    \/ Resumed(me)
    \/ ResumeEditSettings(me)
ApiNext == \E me \in Handlers : ApiStep(me)
ApiSpec == Init /\ [][ApiNext]_vars

\* ------------------------------------------------ failures and bad records
\* the characters of a number written in decimal
RECURSIVE DigitsOf(_)
DigitsOf(n) == IF n < 10 THEN <<Digit[n + 1]>> ELSE DigitsOf(n \div 10) \o <<Digit[(n % 10) + 1]>>
RECURSIVE DigitsOfAll(_)
DigitsOfAll(q) == IF q = <<>> THEN <<>> ELSE DigitsOf(q[1]) \o DigitsOfAll(Tail(q))

\* the Data records still in their channel
DataIds ==
    {id \in 1..Len(messages) :
        /\ messages[id].ch # None
        /\ Len(messages[id].content) >= 3
        /\ messages[id].content[1] = DATA_MESSAGE_PREFIX}
\* the record's payload is a JSON array of integers
Sound(id) ==
    LET raw == Payload(messages[id].content)
    IN  Len(raw) >= 2 /\ raw[1] = "[" /\ LoadsList(raw).ok

\* Something other than this process's store writes to or deletes from the
\* storage channel, one record at a time, while no operation is running and
\* another call is still to come.
CanDamage(id) ==
    /\ InFlight = {}
    /\ calls < MaxFaultCalls
    /\ \A o \in 1..Len(messages) : messages[o].ch # None
    /\ \A o \in DataIds : Sound(o)
\* the record loses its end: a partial write
TruncateRecord ==
    \E id \in DataIds :
        /\ CanDamage(id)
        /\ messages' = [messages EXCEPT ![id].content = SubSeq(@, 1, Len(@) - 1)]
        /\ UNCHANGED <<index, queues, settings, storage_channel, index_message,
                       settings_message, channels, hs, calls, known, arrival, ui>>
\* the record's payload is written as a JSON string of digits instead of a
\* JSON array
RequoteRecord ==
    \E id \in DataIds :
        /\ CanDamage(id)
        /\ messages' = [messages EXCEPT ![id].content =
                SubSeq(@, 1, 4) \o <<"\"">> \o DigitsOfAll(LoadsList(Payload(@)).val) \o <<"\"">>]
        /\ UNCHANGED <<index, queues, settings, storage_channel, index_message,
                       settings_message, channels, hs, calls, known, arrival, ui>>
\* the record is deleted: fetch_message no longer finds it
DeleteRecord ==
    \E id \in DataIds :
        /\ CanDamage(id)
        /\ messages' = [messages EXCEPT ![id].ch = None]
        /\ UNCHANGED <<index, queues, settings, storage_channel, index_message,
                       settings_message, channels, hs, calls, known, arrival, ui>>

\* the send, fetch or edit a store operation awaits raises instead
FailWrite(me) ==
    /\ hs[me].pc \in OpPcs
    /\ Commit(Throw(Pack, me, "HTTPException"))
    /\ UNCHANGED <<calls, known>>
\* a channel call of init_storage outside its try blocks raises
FailInit(me) ==
    /\ hs[me].pc \in InitPcs \ {"i_fetch"}
    /\ Commit(Throw(Pack, me, "HTTPException"))
    /\ UNCHANGED <<calls, known>>
\* fetch_message in the loading loop raises: caught by "except Exception"
FailFetchData(me) ==
    /\ hs[me].pc = "i_fetch"
    /\ Commit(InitLoaded([Pack EXCEPT !.hs[me].failedAt = "i_fetch"], me,
                          [ok |-> FALSE, val |-> <<>>]))
    /\ UNCHANGED <<calls, known>>

FaultStep(me) ==
    \/ ApiInit(me, MaxFaultCalls)
    \/ ApiEnsureKey(me, MaxFaultCalls)
    \/ ApiAdd(me, MaxFaultCalls)
    \/ ApiRemove(me, MaxFaultCalls)
    \/ ApiReset(me, MaxFaultCalls)
    \/ ApiPopN(me, MaxFaultCalls)
    \/ ApiSetLang(me, MaxFaultCalls)
    \/ Resumed(me)
    \/ ResumeEditSettings(me)
    \/ FailWrite(me)
    \/ FailInit(me)
    \/ FailFetchData(me)
FaultNext ==
    \/ \E me \in Handlers : FaultStep(me)
    \/ TruncateRecord
    \/ RequoteRecord
    \/ DeleteRecord
FaultSpec == Init /\ [][FaultNext]_vars

\* ---------------------------------------------------------- panel text
\* Titles, descriptions and footers are sequences of characters (a word in
\* which nothing is searched stands as one character).
PanelKeyOrder == <<"a", "ab">>
PanelKeys == {PanelKeyOrder[i] : i \in 1..Len(PanelKeyOrder)}
\* the backtick character
Backtick == "BACKTICK"
\* the characters of a key
Spell(key) == IF key = "ab" THEN <<"a", "b">> ELSE IF key = "" THEN <<>> ELSE <<key>>
\* the key a text spells, "" when the text is empty or no key is spelled so
Unspell(cs) ==
    IF \E k \in PanelKeys : Spell(k) = cs THEN CHOOSE k \in PanelKeys : Spell(k) = cs
    ELSE IF cs = <<>> THEN "" ELSE "?"

\* t(lang, msg_key, **kwargs): the bundle's template with its placeholders
\* filled in.  The bundles of lang/ put the key between backticks in
\* panel_desc and after ": " in panel_title.
t(lang, msg_key, key, n) ==
    CASE msg_key = "panel_title" -> <<"Signup", ":", " ">> \o Spell(key)
      [] msg_key = "panel_desc" -> <<"Queue", " ", Backtick>> \o Spell(key) \o <<Backtick>>
      [] msg_key = "footer_count" -> <<"Total", " ", IntStr(n)>>
      [] OTHER -> <<msg_key>>

\* sub in s
IsInfix(sub, s) ==
    \E i \in 0..(Len(s) - Len(sub)) : SubSeq(s, i + 1, i + Len(sub)) = sub
\* str.strip()
RECURSIVE Strip(_)
Strip(cs) ==
    IF cs # <<>> /\ cs[1] = " " THEN Strip(Tail(cs))
    ELSE IF cs # <<>> /\ cs[Len(cs)] = " " THEN Strip(SubSeq(cs, 1, Len(cs) - 1))
    ELSE cs
\* re.search(r"`([^`]+)`", desc): the first stretch of one or more characters
\* other than a backtick between two backticks; <<>> when there is none
CodeSpan(desc) ==
    LET opens == {i \in 1..Len(desc) :
                    /\ desc[i] = Backtick
                    /\ i < Len(desc) /\ desc[i + 1] # Backtick
                    /\ \E j \in (i + 2)..Len(desc) : desc[j] = Backtick}
    IN  IF opens = {} THEN <<>>
        ELSE LET i == CHOOSE x \in opens : \A y \in opens : x <= y
                 j == CHOOSE x \in (i + 2)..Len(desc) :
                        desc[x] = Backtick /\ \A y \in (i + 2)..(x - 1) : desc[y] # Backtick
             IN  SubSeq(desc, i + 1, j - 1)
\* title.split(":", 1)[1]
AfterColon(title) ==
    LET i == CHOOSE x \in 1..Len(title) :
                title[x] = ":" /\ \A y \in 1..(x - 1) : title[y] # ":"
    IN  SubSeq(title, i + 1, Len(title))

\* SignupView.extract_key(message); "" for None
extract_key(viewKey, msg) ==
    IF viewKey # "" THEN viewKey
    ELSE IF ~msg.embeds THEN ""
    ELSE IF CodeSpan(msg.desc) # <<>> THEN Unspell(CodeSpan(msg.desc))
    ELSE IF ":" \in Range(msg.title) THEN Unspell(Strip(AfterColon(msg.title)))
    ELSE ""

\* -------------------------------------------------------------- panels
\* A message of a text channel: its author (the bot or someone else), its
\* first embed, and the key of the SignupView attached to it in this process
\* ("" when only the persistent view without a key answers for it).  key0 is
\* history: the key queue_create posted the panel for.
TextChannels == <<"c1", "c2">>
NewPanel(ch, key, title, cnt, lang) ==
    [ch |-> ch, bot |-> TRUE, embeds |-> TRUE, title |-> title,
     desc |-> t(lang, "panel_desc", key, 0),
     footer |-> t(lang, "footer_count", "", cnt), view |-> key, key0 |-> key]

\* an update_panel_message() that leaves the footer as it is
RenderNoFooter(msg, key, cnt, lang) ==
    [msg EXCEPT !.embeds = TRUE,
                !.title = IF ~msg.embeds \/ msg.title = <<>>
                          THEN t(lang, "panel_title", key, 0) ELSE msg.title,
                !.desc = t(lang, "panel_desc", key, 0)]
\* the embed update_panel_message and SignupView._update_panel build from
\* the message: the title it has (the default one when it has none), the
\* description and the footer for key
Render(msg, key, cnt, lang) ==
    [msg EXCEPT !.embeds = TRUE,
                !.title = IF ~msg.embeds \/ msg.title = <<>>
                          THEN t(lang, "panel_title", key, 0) ELSE msg.title,
                !.desc = t(lang, "panel_desc", key, 0),
                !.footer = t(lang, "footer_count", "", cnt)]
\* the embed queue_set_title builds: a new one with the given title, and a
\* view that carries the key
Retitle(msg, key, title, cnt, lang) ==
    [msg EXCEPT !.embeds = TRUE, !.title = title,
                !.desc = t(lang, "panel_desc", key, 0),
                !.footer = t(lang, "footer_count", "", cnt), !.view = key]

\* the test of update_all_panels_for_key and queue_set_title: the message is
\* the bot's, has an embed, and its description holds `key` or its title
\* holds ": key"
IsPanelFor(msg, key) ==
    /\ msg.bot /\ msg.embeds
    /\ \/ IsInfix(<<Backtick>> \o Spell(key) \o <<Backtick>>, msg.desc)
       \/ IsInfix(<<":", " ">> \o Spell(key), msg.title)

\* ch.history(limit=200, oldest_first=False): the ids of the channel's
\* latest messages, newest first
PanelHistoryLimit == 200
RECURSIVE Newest(_, _, _)
Newest(ps, ch, i) ==
    IF i = 0 THEN <<>>
    ELSE IF ps[i].ch = ch THEN <<i>> \o Newest(ps, ch, i - 1) ELSE Newest(ps, ch, i - 1)
PanelHistory(ps, ch) ==
    LET all == Newest(ps, ch, Len(ps))
    IN  SubSeq(all, 1, Min(Len(all), PanelHistoryLimit))

\* the in-memory effect of the store's operations, each preceded by
\* ensure_key (their writes to the storage channel are the subject of
\* SeqSpec and ApiSpec)
MemEnsure(qs, key) == IF key \in DOMAIN qs THEN qs ELSE DictSet(qs, key, <<>>)
MemAdd(qs, key, m) ==
    LET q == MemEnsure(qs, key)
    IN  IF m \in Range(q[key]) THEN q ELSE DictSet(q, key, Append(q[key], m))
MemRemove(qs, key, m) ==
    LET q == MemEnsure(qs, key)
    IN  IF m \in Range(q[key]) THEN DictSet(q, key, RemoveFirst(q[key], m)) ELSE q
MemReset(qs, key) == DictSet(qs, key, <<>>)
MemPop(qs, key, n) ==
    LET q == MemEnsure(qs, key)
        c == Clamp(n, Len(q[key]))
    IN  DictSet(q, key, SubSeq(q[key], c + 1, Len(q[key])))

\* ------------------------------------------- the synchronization pass
\* U is ui, qs the queue table.  A pass is update_all_panels_for_key, or the
\* loop of the same shape inside queue_set_title; it suspends at every
\* ch.history and at every msg.edit.
\* the command replies (or sends its followup) and returns
PassFinished(U) == [U EXCEPT !.task.pc = "done", !.task.acked = TRUE]
\* for ch in guild.text_channels: the next ch.history is awaited
PassNextChannel(U) ==
    IF U.task.chans = <<>> THEN PassFinished(U)
    ELSE [U EXCEPT !.task.pc = "p_hist", !.task.todo = <<>>,
                   !.task.early = U.task.early \/ ~U.task.acked]
\* the body of "async for m in ch.history(...)" up to the next await
RECURSIVE PassScan(_, _, _)
PassScan(U, qs, lang) ==
    LET k == U.task.key IN
    IF U.task.todo = <<>> THEN PassNextChannel([U EXCEPT !.task.chans = Tail(@)])
    ELSE LET id == Head(U.task.todo)
             msg == U.panels[id]
         IN  IF IsPanelFor(msg, k)
             THEN [U EXCEPT !.task.pc = "p_edit", !.task.target = id,
                            !.task.todo = Tail(@),
                            !.task.embed =
                                IF U.task.cmd = "queue_set_title"
                                THEN Retitle(msg, k, U.task.title, count(qs, k), lang)
                                ELSE Render(msg, k, count(qs, k), lang)]
             ELSE PassScan([U EXCEPT !.task.todo = Tail(@)], qs, lang)
\* ch.history returned the channel's latest messages
PassHistoryFetched(U, qs, lang) ==
    PassScan([U EXCEPT !.task.todo = PanelHistory(U.panels, Head(U.task.chans))], qs, lang)
\* ch.history raised: "except Exception: continue"
PassHistoryFailed(U) ==
    PassNextChannel([U EXCEPT !.task.skipped = @ \cup {Head(U.task.chans)},
                              !.task.chans = Tail(@)])
\* msg.edit returned
PassEdited(U, qs, lang) ==
    PassScan([U EXCEPT !.panels[U.task.target] = U.task.embed,
                       !.task.edited = @ \cup {U.task.target},
                       !.task.updated = @ + 1], qs, lang)
\* an update_panel_message() that lets the exception of msg.edit out, into
\* the "except Exception: continue" around the channel's loop
PassEditFailedAbort(U, qs, lang) ==
    PassNextChannel([U EXCEPT !.task.failed = @ \cup {U.task.target},
                              !.task.chans = Tail(@)])
\* msg.edit raised.  update_panel_message catches it and the loop goes on;
\* queue_set_title awaits m.edit inside the channel's try, and the exception
\* ends the loop over that channel.
PassEditFailed(U, qs, lang) ==
    IF U.task.cmd = "queue_set_title"
    THEN PassNextChannel([U EXCEPT !.task.failed = @ \cup {U.task.target},
                                   !.task.chans = Tail(@)])
    ELSE PassScan([U EXCEPT !.task.failed = @ \cup {U.task.target}], qs, lang)
\* update_all_panels_for_key(guild, key, store) up to its first await
PassStart(U) == PassNextChannel([U EXCEPT !.task.chans = TextChannels])

\* ------------------------------------- commands and buttons on panels
\* One command or button press at a time.  The store is initialized and its
\* calls are taken by their in-memory effect.
PanelFrame ==
    UNCHANGED <<index, settings, storage_channel, index_message, settings_message,
                channels, messages, hs, calls, known, arrival>>
CanCommand == ui.task.pc \in {"idle", "done"} /\ ui.calls < MaxPanelCalls
\* the commands that scan the text channels for panels
ScanCmds == {"queue_reset", "queue_remove", "queue_remove_n", "queue_set_title"}
\* the handler's arguments, and history: the panels and queues a scanning
\* command found
Begin(cmd, key, title, member, n, panel) ==
    [NoTask EXCEPT !.cmd = cmd, !.key = key, !.title = title, !.member = member,
                   !.count = n, !.panel = panel,
                   !.pre = IF cmd \in ScanCmds
                           THEN [panels |-> ui.panels, queues |-> queues] ELSE <<>>]
Started(U) == [U EXCEPT !.calls = @ + 1]
\* channels are interchangeable names: the first to hold a message is c1
ChanChoices ==
    LET used == {i \in 1..Len(TextChannels) :
                    \E p \in 1..Len(ui.panels) : ui.panels[p].ch = TextChannels[i]}
    IN  {TextChannels[i] : i \in 1..Min(Cardinality(used) + 1, Len(TextChannels))}
\* the titles an admin gives: one of his own, and one in the default form
TitleArgs(key) == {<<"Run">>, t(DEFAULT_LANG, "panel_title", key, 0)}
\* members are interchangeable ids: the first to appear is 1
PanelMembers ==
    LET seen == {m \in Members : \E k \in DOMAIN queues : m \in Range(queues[k])}
    IN  1..Min(Cardinality(seen) + 1, MaxMember)
\* the calls that may still raise in this command
CanFail == Cardinality(ui.task.failed) + Cardinality(ui.task.skipped) < MaxPassFaults

\* queue_create(key, title): ensure_key, then the panel is the reply
QueueCreate ==
    /\ CanCommand /\ Len(ui.panels) < MaxPanels
    /\ \E ch \in ChanChoices, k \in PanelKeys :
         \E title \in TitleArgs(k) :
           LET qs == MemEnsure(queues, k)
               T == [Begin("queue_create", k, title, 0, 0, 0) EXCEPT
                        !.pc = "done", !.acked = TRUE]
           IN  /\ queues' = qs
               /\ ui' = Started([ui EXCEPT
                          !.panels = Append(@, NewPanel(ch, k, title, count(qs, k),
                                                        get_lang(settings))),
                          !.task = T])
    /\ PanelFrame

\* a message with an embed that reads like a panel, posted by someone else
OtherPost ==
    /\ CanCommand /\ Len(ui.panels) < MaxPanels
    /\ \A p \in 1..Len(ui.panels) : ui.panels[p].bot
    /\ \E ch \in ChanChoices :
         ui' = Started([ui EXCEPT
                  !.panels = Append(@, [NewPanel(ch, "a", <<"Run">>, 0, DEFAULT_LANG)
                                           EXCEPT !.bot = FALSE, !.view = "", !.key0 = ""]),
                  !.task = [Begin("post", "", <<>>, 0, 0, 0) EXCEPT !.pc = "done"]])
    /\ UNCHANGED queues
    /\ PanelFrame

\* the process restarts: the views that carried a key are gone, the
\* persistent view without a key answers for every panel
Restart ==
    /\ CanCommand
    /\ \E p \in 1..Len(ui.panels) : ui.panels[p].view # ""
    /\ ui' = Started([ui EXCEPT !.panels = [p \in 1..Len(ui.panels) |->
                                               [ui.panels[p] EXCEPT !.view = ""]],
                                !.task = [Begin("restart", "", <<>>, 0, 0, 0) EXCEPT
                                             !.pc = "done"]])
    /\ UNCHANGED queues
    /\ PanelFrame

\* SignupView.signup and SignupView.cancel on panel p, pressed by member m:
\* the key is taken from the view or from the panel's text, the store is
\* called, and _update_panel awaits the edit of the panel
Press(cmd, p, m) ==
    LET msg == ui.panels[p]
        k == extract_key(msg.view, msg)
        qs == IF cmd = "signup" THEN MemAdd(queues, k, m) ELSE MemRemove(queues, k, m)
        T == Begin(cmd, k, <<>>, m, 0, p)
    IN  IF k = ""
        THEN /\ ui' = Started([ui EXCEPT !.task = [T EXCEPT !.pc = "done", !.acked = TRUE]])
             /\ UNCHANGED queues
        ELSE /\ queues' = qs
             /\ ui' = Started([ui EXCEPT !.task =
                        [T EXCEPT !.pc = "v_edit", !.target = p,
                                  !.embed = Render(msg, k, count(qs, k), get_lang(settings))]])
Join ==
    /\ CanCommand
    /\ \E p \in 1..Len(ui.panels), m \in PanelMembers : ui.panels[p].bot /\ Press("signup", p, m)
    /\ PanelFrame
Leave ==
    /\ CanCommand
    /\ \E p \in 1..Len(ui.panels), m \in PanelMembers : ui.panels[p].bot /\ Press("cancel", p, m)
    /\ PanelFrame

\* queue_reset(key): reset, the reply, then the pass
QueueReset ==
    /\ CanCommand
    /\ \E k \in PanelKeys :
         /\ queues' = MemReset(queues, k)
         /\ ui' = PassStart(Started([ui EXCEPT !.task =
                     [Begin("queue_reset", k, <<>>, 0, 0, 0) EXCEPT !.acked = TRUE]]))
    /\ PanelFrame
\* queue_remove_n(key, count): pop_n, the pass, then the reply
QueueRemoveN ==
    /\ CanCommand
    /\ \E k \in PanelKeys, c \in CountArgs :
         LET n == Max(1, Min(c, MaxRemoveN))
         IN  /\ queues' = MemPop(queues, k, n)
             /\ ui' = PassStart(Started([ui EXCEPT !.task =
                         Begin("queue_remove_n", k, <<>>, 0, n, 0)]))
    /\ PanelFrame
\* queue_remove(key, users) with one user named: remove, the pass, then the
\* reply
QueueRemove ==
    /\ CanCommand
    /\ \E k \in PanelKeys, m \in PanelMembers :
         /\ queues' = MemRemove(queues, k, m)
         /\ ui' = PassStart(Started([ui EXCEPT !.task =
                     Begin("queue_remove", k, <<>>, m, 0, 0)]))
    /\ PanelFrame
\* queue_set_title(key, title): the deferred reply, then its own scan
QueueSetTitle ==
    /\ CanCommand
    /\ \E k \in PanelKeys :
         ui' = PassStart(Started([ui EXCEPT !.task =
                  [Begin("queue_set_title", k, <<"Boss">>, 0, 0, 0) EXCEPT !.acked = TRUE]]))
    /\ UNCHANGED queues
    /\ PanelFrame

\* the awaited calls return
PanelHistoryReturns ==
    /\ ui.task.pc = "p_hist"
    /\ ui' = PassHistoryFetched(ui, queues, get_lang(settings))
    /\ UNCHANGED queues /\ PanelFrame
PanelEditReturns ==
    /\ ui.task.pc = "p_edit"
    /\ ui' = PassEdited(ui, queues, get_lang(settings))
    /\ UNCHANGED queues /\ PanelFrame
ViewEditReturns ==
    /\ ui.task.pc = "v_edit"
    /\ ui' = [ui EXCEPT !.panels[ui.task.target] = ui.task.embed,
                        !.task.edited = {ui.task.target},
                        !.task.pc = "done", !.task.acked = TRUE]
    /\ UNCHANGED queues /\ PanelFrame
\* the awaited calls raise
PanelHistoryFails ==
    /\ ui.task.pc = "p_hist" /\ CanFail
    /\ ui' = PassHistoryFailed(ui)
    /\ UNCHANGED queues /\ PanelFrame
PanelEditFails ==
    /\ ui.task.pc = "p_edit" /\ CanFail
    /\ ui' = PassEditFailed(ui, queues, get_lang(settings))
    /\ UNCHANGED queues /\ PanelFrame
ViewEditFails ==
    /\ ui.task.pc = "v_edit" /\ CanFail
    /\ ui' = [ui EXCEPT !.task.failed = {ui.task.target},
                        !.task.pc = "done", !.task.acked = TRUE]
    /\ UNCHANGED queues /\ PanelFrame

PanelNext ==
    \/ QueueCreate
    \/ OtherPost
    \/ Restart
    \/ Join
    \/ Leave
    \/ QueueReset
    \/ QueueRemoveN
    \/ QueueRemove
    \/ QueueSetTitle
    \/ PanelHistoryReturns
    \/ PanelEditReturns
    \/ ViewEditReturns
    \/ PanelHistoryFails
    \/ PanelEditFails
    \/ ViewEditFails
PanelSpec == Init /\ [][PanelNext]_vars

\* ------------------------------------------------ queue_notify_boss_run
\* The command sends one direct message to each of the first members of a
\* queue.  ui.sends holds one send_dm task per target: pc is "new" (created
\* by gather, not yet run), "wait" (queued on the semaphore), "title" (holds
\* the semaphore, awaiting guess_title's ch.history), "send" (holds the
\* semaphore, awaiting member.send) or "done" with its result.
SemLimit == 5
MaxNotify == 25
NotifyCounts == {0, 1, MaxTargets, MaxNotify + 5}
\* users[:count] after count = max(1, min(int(count), 25))
Targets(users, n) == SubSeq(users, 1, Min(Max(1, Min(n, MaxNotify)), Len(users)))
\* guess_title(): the title of the first message that passes for a panel of
\* key, the default title when it has none or there is no such message
RECURSIVE GuessTitle(_, _, _, _)
GuessTitle(ps, chs, key, lang) ==
    IF chs = <<>> THEN t(lang, "panel_title", key, 0)
    ELSE LET hits == SelectSeq(PanelHistory(ps, Head(chs)),
                               LAMBDA id : IsPanelFor(ps[id], key))
         IN  IF hits = <<>> THEN GuessTitle(ps, Tail(chs), key, lang)
             ELSE IF ps[Head(hits)].title = <<>> THEN t(lang, "panel_title", key, 0)
             ELSE ps[Head(hits)].title
\* the tasks that hold the semaphore
Inside(U) == {i \in 1..Len(U.sends) : U.sends[i].pc \in {"title", "send"}}
Waiting(U) == {i \in 1..Len(U.sends) : U.sends[i].pc = "wait"}
\* an acquire that never waits
AcquireAlways(U, i) == [U EXCEPT !.sends[i].pc = "title", !.sem = @ + 1]
\* async with sem, entering: the task goes on when a permit is free and
\* nobody is queued, and queues otherwise
Acquire(U, i) ==
    IF U.sem < SemLimit /\ Waiting(U) = {}
    THEN [U EXCEPT !.sends[i].pc = "title", !.sem = @ + 1]
    ELSE [U EXCEPT !.sends[i].pc = "wait"]
\* async with sem, leaving: the permit goes to the task queued first
Release(U) ==
    IF Waiting(U) = {} THEN [U EXCEPT !.sem = @ - 1]
    ELSE LET w == CHOOSE x \in Waiting(U) : \A y \in Waiting(U) : x <= y
         IN  [U EXCEPT !.sends[w].pc = "title"]
\* send_dm returns (uid, success, reason)
SendResult(U, i, reason) == [U EXCEPT !.sends[i].pc = "done", !.sends[i].result = reason]
\* a send_dm without its except clauses: the exception leaves the task, the
\* gather raises it into the command, and the command ends without a report
SendFailedAbort(U, i, reason) ==
    [Release(U) EXCEPT !.sends[i].pc = "done", !.task.pc = "done", !.task.failed = {i}]
\* member.send raised inside "async with sem": the semaphore is released and
\* the except clause makes the failure the task's result
SendFailed(U, i, reason) == SendResult(Release(U), i, reason)

NotifyFrame ==
    UNCHANGED <<index, settings, storage_channel, index_message, settings_message,
                channels, messages, hs, calls, known, arrival, queues>>
\* the queue of key a has some members, one panel shows the key, and some of
\* the members have left the guild
NotifyInit ==
    /\ index = <<>>
    /\ \E n \in {0, 2, MaxTargets} : queues = [k \in {"a"} |-> [i \in 1..n |-> i]]
    /\ settings = [lang |-> DEFAULT_LANG]
    /\ storage_channel = None
    /\ index_message = None
    /\ settings_message = None
    /\ channels = <<>>
    /\ messages = <<>>
    /\ hs = [h \in Handlers |-> NoHandler]
    /\ calls = 0
    /\ known = [g |-> 0, k |-> 0, m |-> 0, r |-> 0]
    /\ arrival = EmptyDict
    /\ ui = [NoUi EXCEPT !.panels = <<NewPanel("c1", "a", <<"Run">>, 0, DEFAULT_LANG)>>]

\* queue_notify_boss_run(key, count, channel) up to the gather: the deferred
\* reply, the list, the followup for an empty list, or one task per target
NotifyStart ==
    /\ ui.task.pc \in {"idle", "done"} /\ ui.calls < MaxNotifyCalls
    /\ \E c \in NotifyCounts, gone \in {{}, {2}} :
         LET users == get_list(queues, "a")
             T == [Begin("queue_notify_boss_run", "a", <<>>, 0, c, 0) EXCEPT !.acked = TRUE]
             tg == Targets(users, c)
         IN  ui' = IF users = <<>>
                   THEN Started([ui EXCEPT !.task = [T EXCEPT !.pc = "done"],
                                            !.sends = <<>>, !.report = <<>>])
                   ELSE Started([ui EXCEPT
                           !.task = [T EXCEPT !.pc = "gather"],
                           !.sem = 0, !.report = <<>>,
                           !.sends = [i \in 1..Len(tg) |->
                                        [uid |-> tg[i], member |-> tg[i] \notin gone,
                                         pc |-> "new", title |-> <<>>, result |-> ""]]])
    /\ NotifyFrame
\* a task runs up to its first await: not a member, or the semaphore
SendStart ==
    /\ ui.task.pc = "gather"
    /\ \E i \in 1..Len(ui.sends) :
         /\ ui.sends[i].pc = "new"
         /\ \A j \in 1..(i - 1) : ui.sends[j].pc # "new"
         /\ ui' = IF ~ui.sends[i].member THEN SendResult(ui, i, "not_member")
                  ELSE Acquire(ui, i)
    /\ NotifyFrame
\* guess_title returned (a ch.history that raises is skipped inside it)
TitleGuessed ==
    /\ ui.task.pc = "gather"
    /\ \E i \in 1..Len(ui.sends) :
         /\ ui.sends[i].pc = "title"
         /\ ui' = [ui EXCEPT !.sends[i].pc = "send",
                             !.sends[i].title =
                                 GuessTitle(ui.panels, TextChannels, ui.task.key,
                                            get_lang(settings))]
    /\ NotifyFrame
\* member.send returned
SendReturns ==
    /\ ui.task.pc = "gather"
    /\ \E i \in 1..Len(ui.sends) :
         /\ ui.sends[i].pc = "send"
         /\ ui' = SendResult(Release(ui), i, "ok")
    /\ NotifyFrame
\* member.send raised Forbidden, HTTPException or another exception
SendFails ==
    /\ ui.task.pc = "gather"
    /\ \E i \in 1..Len(ui.sends), reason \in {"forbidden", "http_500", "error"} :
         /\ ui.sends[i].pc = "send"
         /\ Cardinality({j \in 1..Len(ui.sends) :
                            ui.sends[j].result \notin {"", "ok", "not_member"}}) < MaxSendFaults
         /\ ui' = SendFailed(ui, i, reason)
    /\ NotifyFrame
\* the gather returns the results in the order of the targets; the followup
\* reports the sent and the failed
GatherReturns ==
    /\ ui.task.pc = "gather"
    /\ \A i \in 1..Len(ui.sends) : ui.sends[i].pc = "done"
    /\ LET ok == SelectSeq(ui.sends, LAMBDA r : r.result = "ok")
           fail == SelectSeq(ui.sends, LAMBDA r : r.result # "ok")
       IN  ui' = [ui EXCEPT !.task.pc = "done",
                            !.report = [sent |-> Len(ok), failed |-> Len(fail),
                                        sent_list |-> [i \in 1..Len(ok) |-> ok[i].uid],
                                        failed_list |-> [i \in 1..Len(fail) |->
                                                           <<fail[i].uid, fail[i].result>>]]]
    /\ NotifyFrame

NotifyNext ==
    \/ NotifyStart
    \/ SendStart
    \/ TitleGuessed
    \/ SendReturns
    \/ SendFails
    \/ GatherReturns
NotifySpec == NotifyInit /\ [][NotifyNext]_vars

\* ================================================================ claims
Done(h, op) == hs[h].pc = "done" /\ hs[h].op = op
NoDup(q) == \A i, j \in 1..Len(q) : q[i] = q[j] => i = j

\* C1: in every reachable state, under any interleaving of the handlers'
\* add, remove, reset, pop_n, ensure_key and init_storage, no member occurs
\* more than once in any key's in-memory queue.
C1_NoDuplicateMembers == \A k \in DOMAIN queues : NoDup(queues[k])

\* C1 witness: an add for a member already in line has returned, other
\* handlers have been at work, and the member is in the queue.
C1_Witness ==
    \E h \in Handlers :
        /\ Done(h, "add")
        /\ hs[h].member \in Range(hs[h].q0)
        /\ hs[h].key \in DOMAIN queues
        /\ hs[h].member \in Range(queues[hs[h].key])
        /\ known.r > 0

\* C2: with the store's calls made one after another, get_list(key) is the
\* members present in the order of their latest insertion (the history
\* variable arrival), position_of of a present member is 1 plus the number
\* of present members inserted before it, and None for an absent member.
InsertedBefore(arr, m) == {x \in Range(arr) : OrderOf(arr, x) < OrderOf(arr, m)}
C2_FifoOrder ==
    \A k \in DOMAIN queues :
        /\ get_list(queues, k) = arrival[k]
        /\ \A m \in Members :
             position_of(queues, k, m) =
                 IF m \in Range(arrival[k])
                 THEN 1 + Cardinality(InsertedBefore(arrival[k], m))
                 ELSE None

\* C2 witness: member 1 has joined a queue that held member 2 and stands
\* second in it.
C2_Witness ==
    \E k \in DOMAIN queues :
        /\ queues[k] = <<2, 1>>
        /\ position_of(queues, k, 1) = 2
        /\ \E h \in Handlers : Done(h, "add") /\ hs[h].member = 1 /\ hs[h].q0 = <<2>>

\* C3: add(key, m) on a queue without m appends m and returns the new
\* length; add(key, m) called again right after it returns the same position
\* and leaves the queue as it is, one longer than before the first call.
C3_AddIdempotent ==
    [][\A h \in Handlers :
        LET k == hs[h].key
            m == hs[h].member
            first == Done(h, "add") /\ m \notin Range(hs[h].q0)
            again == /\ calls' = calls + 1
                     /\ hs'[h].op = "add" /\ hs'[h].key = k /\ hs'[h].member = m
        IN  /\ first => /\ hs[h].retPos = Len(hs[h].q0) + 1
                        /\ queues[k] = Append(hs[h].q0, m)
            /\ first /\ again => /\ hs'[h].pc = "done"
                                 /\ hs'[h].retPos = hs[h].retPos
                                 /\ queues' = queues
                                 /\ Len(queues'[k]) = Len(hs[h].q0) + 1]_vars

\* C3 witness: the second of two add(key, m) has returned the position of
\* m, the last of a queue of two.
C3_Witness ==
    \E h \in Handlers :
        /\ Done(h, "add")
        /\ Len(hs[h].q0) = 2
        /\ hs[h].q0[2] = hs[h].member
        /\ hs[h].retPos = 2
        /\ queues[hs[h].key] = hs[h].q0

C5_PopFront ==
    \A h \in Handlers :
        Done(h, "pop_n") =>
            LET k == hs[h].key
                q == hs[h].q0
                c == Min(Max(hs[h].n, 0), Len(q))
            IN  /\ hs[h].removed = SubSeq(q, 1, c)
                /\ queues[k] = SubSeq(q, c + 1, Len(q))
                /\ hs[h].n >= Len(q) => queues[k] = <<>> /\ hs[h].removed = q
                /\ hs[h].n <= 0 => hs[h].removed = <<>> /\ queues[k] = q

\* C5 witness: pop_n with n = 1 took the first of two members.
C5_Witness ==
    \E h \in Handlers :
        /\ Done(h, "pop_n")
        /\ hs[h].n = 1
        /\ Len(hs[h].q0) = 2
        /\ hs[h].removed = <<hs[h].q0[1]>>
        /\ queues[hs[h].key] = <<hs[h].q0[2]>>

\* C5 second case reached: pop_n with n <= 0 on a queue that is not empty.
C5_WitnessNoOp ==
    \E h \in Handlers : Done(h, "pop_n") /\ hs[h].n <= 0 /\ hs[h].q0 # <<>>

\* the guild a storage channel or a message belongs to
GuildOfChannel(c) == channels[c]
GuildOfMessage(id) == channels[messages[id].ch]

\* C6: a store operation triggered from guild G sends to, fetches from and
\* edits only G's backing records, whatever init_storage calls and handlers
\* of other guilds interleave with it.
C6_GuildIsolation ==
    \A h \in Handlers :
        /\ hs[h].pc \in {"e_send", "s_fetch"} => GuildOfChannel(hs[h].reqCh) = hs[h].guild
        /\ hs[h].pc \in {"e_save", "s_edit"} => GuildOfMessage(hs[h].reqMsg) = hs[h].guild

\* C7: in every state a handler can observe, the in-memory index and the
\* in-memory queue table have the same keys.
C7_IndexMatchesQueues == IndexKeys(index) = DOMAIN queues

\* C8: two Joins by distinct members on the same existing key that overlap:
\* each returns the position of its own member, and once both have returned
\* both members are in the queue once each, next to each other, and the
\* key's Data record holds the in-memory queue.
Overlapping(h, o) ==
    /\ h # o
    /\ hs[h].cmd = "signup" /\ hs[o].cmd = "signup"
    /\ hs[h].key = hs[o].key /\ hs[h].member # hs[o].member
    /\ hs[h].keyKnown /\ hs[o].keyKnown
    /\ hs[o].pc # "idle"
C8_ConcurrentJoins ==
    \A h, o \in Handlers :
        Overlapping(h, o) /\ hs[h].pc \in {"done", "raised"} =>
            LET k == hs[h].key
                q == get_list(queues, k)
            IN  /\ hs[h].pc = "done"
                /\ hs[h].retPos = position_of(queues, k, hs[h].member)
                /\ hs[o].pc \in {"done", "raised"} =>
                     /\ NoDup(q)
                     /\ hs[o].member \in Range(q)
                     /\ hs[h].retPos - hs[o].retPos \in {1, -1}
                     /\ k \in IndexKeys(index)
                     /\ messages[IndexGet(index, k)].content = DataContent(k, q)

\* the records of one kind in the storage channels of a guild
RecordsOf(g, prefix) ==
    {id \in 1..Len(messages) :
        /\ GuildOfMessage(id) = g
        /\ messages[id].content[1] = prefix}

\* C9: once the init_storage calls made for a guild have returned, the guild
\* has one storage channel with one Index record and one Settings record.
C9_OneStorageOneIndex ==
    \A g \in Guilds :
        (/\ GuildChannels(channels, g) # {}
         /\ \A h \in Handlers : hs[h].pc \in InitPcs => hs[h].guild # g)
        => /\ Cardinality(GuildChannels(channels, g)) = 1
           /\ Cardinality(RecordsOf(g, INDEX_MESSAGE_PREFIX)) = 1
           /\ Cardinality(RecordsOf(g, SETTINGS_MESSAGE_PREFIX)) = 1

\* the Data records of a key in a channel
DataRecords(ch, key) ==
    {id \in ChannelMessages(messages, ch) :
        SubSeq(messages[id].content, 1, 3) = <<DATA_MESSAGE_PREFIX, " ", key>>}

\* C10: once the handlers have returned, the backing channel holds one Data
\* record for every key of the index, and the index points to it.
C10_OneDataRecordPerKey ==
    InFlight = {} /\ storage_channel # None =>
        \A k \in IndexKeys(index) :
            DataRecords(storage_channel, k) = {IndexGet(index, k)}

\* the store as it is when init_storage has completed
Initialized(p) == p.storage_channel # None /\ p.index_message # None

\* C11: ensure_key(key) on an initialized store returns; with key already in
\* the index it sends and edits nothing and leaves index and queues as they
\* are; with key absent it sends one Data record with the payload [], maps
\* key to that record in the index, binds key to an empty queue, and the
\* Index record decodes to the new index when it returns.
C11_EnsureKey ==
    \A h \in Handlers :
        LET p == hs[h].pre
            k == hs[h].key
            id == Len(p.messages) + 1
        IN  hs[h].op = "ensure_key" /\ hs[h].pc \in {"done", "raised"} /\ Initialized(p) =>
              /\ hs[h].pc = "done"
              /\ IF k \in IndexKeys(p.index)
                 THEN messages = p.messages /\ index = p.index /\ queues = p.queues
                 ELSE /\ Len(messages) = id
                      /\ messages[id] = [ch |-> storage_channel, content |-> DataContent(k, <<>>)]
                      /\ index = Append(p.index, [k |-> k, v |-> id])
                      /\ queues = DictSet(p.queues, k, <<>>)
                      /\ LoadsIndex(Payload(messages[index_message].content)) =
                             [ok |-> TRUE, val |-> index]
                      /\ \A i \in 1..Len(p.messages) :
                             i # index_message => messages[i] = p.messages[i]

\* C11 witness: ensure_key has created a second key next to the first.
C11_Witness ==
    \E h \in Handlers :
        /\ Done(h, "ensure_key")
        /\ hs[h].key \notin IndexKeys(hs[h].pre.index)
        /\ Len(hs[h].pre.index) = 1
        /\ Len(index) = 2

\* the store's operations other than init_storage
StoreOps == ReadOps \cup {"set_lang", "ensure_key", "add", "remove", "reset", "pop_n"}
\* the store and the channel are as they were when h was called
Untouched(h) ==
    /\ index = hs[h].pre.index
    /\ queues = hs[h].pre.queues
    /\ settings = hs[h].pre.settings
    /\ messages = hs[h].pre.messages
    /\ channels = hs[h].pre.channels

\* C12: a store operation called on a store on which init_storage has not
\* completed raises the not-initialized RuntimeError and changes nothing.
C12_NotInitialized ==
    \A h \in Handlers :
        hs[h].op \in StoreOps /\ hs[h].pc \in {"done", "raised"} /\ ~Initialized(hs[h].pre) =>
            /\ hs[h].pc = "raised"
            /\ hs[h].exc = "RuntimeError"
            /\ Untouched(h)

\* the operations that take a key
KeyedOps == {"get_list", "count", "position_of", "add", "remove", "reset", "pop_n"}

\* C13: a keyed operation called with a key the index does not hold returns
\* with the key provisioned: an index entry, a queue, and a Data record.
C13_AutoProvision ==
    \A h \in Handlers :
        LET k == hs[h].key IN
        (/\ hs[h].op \in KeyedOps /\ hs[h].pc \in {"done", "raised"}
         /\ Initialized(hs[h].pre) /\ k \notin IndexKeys(hs[h].pre.index))
        => /\ hs[h].pc = "done"
           /\ k \in IndexKeys(index)
           /\ k \in DOMAIN queues
           /\ DataRecords(storage_channel, k) = {IndexGet(index, k)}

\* what a Data record decodes to: [] when it cannot be fetched or decoded
DecodedQueue(ch, id) ==
    LET r == IF Fetchable(messages, ch, id)
             THEN LoadsList(Payload(messages[id].content))
             ELSE [ok |-> FALSE, val |-> <<>>]
    IN  IF r.ok THEN r.val ELSE <<>>
\* what an Index record decodes to: {} when it cannot be decoded
DecodedIndex(id) ==
    LET r == LoadsIndex(Payload(messages[id].content))
    IN  IF r.ok THEN r.val ELSE <<>>

\* C14: when init_storage(guild) has completed with no other handler
\* interleaved, the store points at the guild's storage channel and its Index
\* and Settings records, and index, settings and queues are what those
\* records and the Data records of the index decode to, whatever the store
\* held before.
C14_InitReplacesState ==
    \A h \in Handlers :
        Done(h, "init") =>
            /\ storage_channel = GetStorageChannel(channels, hs[h].guild)
            /\ storage_channel # None
            /\ index_message = LastWithPrefix(messages, storage_channel, INDEX_MESSAGE_PREFIX)
            /\ settings_message =
                   LastWithPrefix(messages, storage_channel, SETTINGS_MESSAGE_PREFIX)
            /\ index_message # None /\ settings_message # None
            /\ index = DecodedIndex(index_message)
            /\ settings = LoadsSettings(Payload(messages[settings_message].content))
            /\ DOMAIN queues = IndexKeys(index)
            /\ \A k \in IndexKeys(index) :
                   queues[k] = DecodedQueue(storage_channel, IndexGet(index, k))

\* C14 witness: init_storage for a second guild has completed on a store that
\* held a key and a member of the first guild, and holds neither.
C14_Witness ==
    \E h \in Handlers :
        /\ Done(h, "init")
        /\ hs[h].guild = "g2"
        /\ hs[h].pre.storage_channel # None
        /\ \E k \in DOMAIN hs[h].pre.queues : hs[h].pre.queues[k] # <<>>
        /\ index = <<>> /\ queues = EmptyDict

\* h is an init_storage called right after an init_storage for the same
\* guild returned
SecondInit(h) ==
    /\ hs[h].op = "init"
    /\ hs[h].pre.last = [op |-> "init", guild |-> hs[h].guild, pc |-> "done"]

\* C15: a second init_storage for the same guild, called right after the
\* first returned, creates no channel, creates and edits no record, and
\* leaves the store as the first call left it.
C15_InitIdempotent ==
    \A h \in Handlers :
        SecondInit(h) =>
            /\ hs[h].pc # "raised"
            /\ hs[h].pc \notin {"i_create", "i_sendidx", "i_sendstg"}
            /\ channels = hs[h].pre.channels
            /\ messages = hs[h].pre.messages
            /\ hs[h].pc = "done" =>
                 /\ index = hs[h].pre.index
                 /\ queues = hs[h].pre.queues
                 /\ settings = hs[h].pre.settings
                 /\ storage_channel = hs[h].pre.storage_channel
                 /\ index_message = hs[h].pre.index_message
                 /\ settings_message = hs[h].pre.settings_message

\* C15 witness: the second init_storage has returned on a guild that has a
\* key with a member in line.
C15_Witness ==
    \E h \in Handlers :
        /\ SecondInit(h) /\ hs[h].pc = "done"
        /\ \E k \in DOMAIN queues : queues[k] # <<>>

\* the Settings records of every storage channel
SettingsRecords ==
    {id \in 1..Len(messages) :
        Len(messages[id].content) > 0 /\ messages[id].content[1] = SETTINGS_MESSAGE_PREFIX}

\* C16: after set_lang(c) on an initialized store, get_lang() and the
\* Settings record hold c when c is a loaded bundle and the default language
\* otherwise; no other code is ever in memory or in a Settings record.
C16_SetLangCoerces ==
    /\ \A h \in Handlers :
          Done(h, "set_lang") /\ Initialized(hs[h].pre) =>
              LET want == IF hs[h].lang \in STRINGS THEN hs[h].lang ELSE DEFAULT_LANG
              IN  /\ get_lang(settings) = want
                  /\ messages[settings_message].content = SettingsContent([lang |-> want])
                  /\ LoadsSettings(Payload(messages[settings_message].content)).lang = want
    /\ get_lang(settings) \in STRINGS
    /\ \A id \in SettingsRecords :
          /\ Len(messages[id].content) = 7
          /\ messages[id].content[6] \in STRINGS

\* C16 witness: set_lang with a code that is no bundle has returned on a
\* store that held another language than the default, which it holds now.
C16_Witness ==
    \E h \in Handlers :
        /\ Done(h, "set_lang") /\ Initialized(hs[h].pre)
        /\ hs[h].lang \notin STRINGS
        /\ hs[h].pre.settings.lang # DEFAULT_LANG
        /\ settings.lang = DEFAULT_LANG

\* the records created or changed since h was called
Written(h) ==
    {id \in 1..Len(messages) :
        id > Len(hs[h].pre.messages) \/ messages[id] # hs[h].pre.messages[id]}
QueueOps == {"add", "remove", "reset", "pop_n"}
\* h has returned from an operation of ops called on an initialized store
Returned(h, ops) == hs[h].pc = "done" /\ hs[h].op \in ops /\ Initialized(hs[h].pre)

C18_ReadsOnlyCache ==
    \A h \in Handlers :
        hs[h].op \in ReadOps /\ hs[h].pc # "idle" =>
            LET p == hs[h].pre
                k == hs[h].key
            IN  /\ hs[h].pc = "done"
                /\ Untouched(h)
                /\ storage_channel = p.storage_channel
                /\ index_message = p.index_message
                /\ settings_message = p.settings_message
                /\ hs[h].op = "get_lang" => hs[h].retLang = get_lang(p.settings)
                /\ hs[h].op = "count" => hs[h].retPos = count(p.queues, k)
                /\ hs[h].op = "position_of" =>
                       hs[h].retPos = position_of(p.queues, k, hs[h].member)
                /\ hs[h].op = "get_list" =>
                       \/ hs[h].retList = get_list(p.queues, k)
                       \/ \E m \in Members : hs[h].retList = Append(get_list(p.queues, k), m)

\* C18 witness: the caller of get_list has appended a member to the list it
\* got for a key with a member in line.
C18_Witness ==
    \E h \in Handlers :
        /\ Done(h, "get_list")
        /\ Len(get_list(queues, hs[h].key)) = 1
        /\ Len(hs[h].retList) = 2

\* the operations that change the store and write it back
MutatingOps == QueueOps \cup {"ensure_key", "set_lang"}
\* the queue the operation of h leaves in memory when it has run up to its
\* _save_queue
Mutated(h) ==
    LET p == hs[h].pre
        k == hs[h].key
        q == IF k \in DOMAIN p.queues THEN p.queues[k] ELSE <<>>
        c == Min(Max(hs[h].n, 0), Len(q))
    IN  CASE hs[h].op = "add" -> Append(q, hs[h].member)
          [] hs[h].op = "remove" -> SelectSeq(q, LAMBDA x : x # hs[h].member)
          [] hs[h].op = "reset" -> <<>>
          [] hs[h].op = "pop_n" -> SubSeq(q, c + 1, Len(q))
          [] OTHER -> q

\* C19: when a send, fetch or edit awaited by add, remove, reset, pop_n,
\* ensure_key or set_lang on an initialized store raises, the operation
\* raises that exception and returns nothing, and what it had assigned in
\* memory before the call stays: the new key with its empty queue when the
\* Index edit failed, the changed queue when the Data record's fetch or edit
\* failed, the coerced language when the Settings edit failed, while the
\* record the operation was to write keeps the content it had (a Data record
\* for as long as nothing else damages it).
C19_WriteFailureSurfaced ==
    \A h \in Handlers :
        LET p == hs[h].pre
            k == hs[h].key
            at == hs[h].failedAt
        IN  (/\ hs[h].op \in MutatingOps /\ at # ""
             /\ hs[h].pc \in {"done", "raised"} /\ Initialized(p))
            => /\ hs[h].pc = "raised"
               /\ hs[h].exc \in {"HTTPException", "NotFound"}
               /\ at = "e_send" =>
                    index = p.index /\ queues = p.queues /\ Len(messages) = Len(p.messages)
               /\ at = "e_save" =>
                    /\ k \notin IndexKeys(p.index)
                    /\ index = Append(p.index, [k |-> k, v |-> Len(p.messages) + 1])
                    /\ queues = DictSet(p.queues, k, <<>>)
                    /\ messages[index_message] = p.messages[index_message]
               /\ at \in {"s_fetch", "s_edit"} =>
                    /\ hs[h].op \in QueueOps
                    /\ queues[k] = Mutated(h)
                    /\ \A o \in DOMAIN queues \ {k} : o \in DOMAIN p.queues /\ queues[o] = p.queues[o]
                    /\ k \in IndexKeys(p.index) =>
                         /\ index = p.index
                         /\ IndexGet(index, k) \in DataIds /\ Sound(IndexGet(index, k)) =>
                              messages[IndexGet(index, k)] = p.messages[IndexGet(index, k)]
               /\ at = "l_edit" =>
                    /\ hs[h].op = "set_lang"
                    /\ settings.lang = (IF hs[h].lang \in STRINGS THEN hs[h].lang ELSE DEFAULT_LANG)
                    /\ messages[settings_message] = p.messages[settings_message]

\* C19 witness: the edit of the Data record failed in a remove of a member
\* that was in line; the remove raised, the member is out of the queue in
\* memory and still in the record.
C19_Witness ==
    \E h \in Handlers :
        /\ hs[h].op = "remove" /\ hs[h].pc = "raised" /\ hs[h].failedAt = "s_edit"
        /\ Initialized(hs[h].pre)
        /\ hs[h].member \in Range(hs[h].pre.queues[hs[h].key])
        /\ hs[h].member \notin Range(queues[hs[h].key])
        /\ messages[IndexGet(index, hs[h].key)].content =
               DataContent(hs[h].key, hs[h].pre.queues[hs[h].key])

\* the content is a Data record as the store writes it: its payload is a
\* JSON array of integers
SoundContent(c) ==
    LET raw == Payload(c) IN Len(raw) >= 2 /\ raw[1] = "[" /\ LoadsList(raw).ok
\* the queue the claim has init_storage load from record id of channel ch:
\* the array of a sound record, [] for any other and for one it cannot fetch
LoadedQueue(msgs, ch, id) ==
    IF Fetchable(msgs, ch, id) /\ SoundContent(msgs[id].content)
    THEN LoadsList(Payload(msgs[id].content)).val
    ELSE <<>>

\* C20: init_storage raises only when a channel call outside its loading
\* loop raises; when it has returned, every key of the index has the queue
\* its own Data record holds, the empty queue when that record is malformed,
\* truncated or cannot be fetched (deleted, or a fetch of this init_storage
\* raised), and init_storage has changed no record that existed when it was
\* called.
C20_BadRecordEmptyQueue ==
    \A h \in Handlers :
        LET p == hs[h].pre IN
        /\ hs[h].op = "init" /\ hs[h].pc = "raised" => hs[h].failedAt \in InitPcs \ {"i_fetch"}
        /\ Done(h, "init") =>
             /\ DOMAIN queues = IndexKeys(index)
             /\ \A k \in IndexKeys(index) :
                    \/ queues[k] = LoadedQueue(p.messages, storage_channel, IndexGet(index, k))
                    \/ hs[h].failedAt = "i_fetch" /\ queues[k] = <<>>
             /\ \A id \in 1..Len(p.messages) :
                    \/ messages[id] = p.messages[id]
                    \/ /\ SoundContent(p.messages[id].content) /\ p.messages[id].ch # None
                       /\ ~SoundContent(messages[id].content) \/ messages[id].ch = None

\* the operations that take members out of a queue
TakeOps == {"remove", "reset", "pop_n"}

\* C28: a member whose add has returned a position and who is in the
\* in-memory queue of the key is still in it after every step of every
\* handler, except a step of a handler running remove, reset or pop_n on
\* that key.
C28_NoJoinLost ==
    [][\A h \in Handlers :
          LET k == hs[h].key
              m == hs[h].member
          IN  (/\ Done(h, "add")
               /\ k \in DOMAIN queues /\ m \in Range(queues[k]))
              => \/ k \in DOMAIN queues' /\ m \in Range(queues'[k])
                 \/ \E o \in Handlers :
                      /\ hs'[o] # hs[o]
                      /\ hs'[o].op \in TakeOps /\ hs'[o].key = k]_vars

\* C29: whenever no handler is in flight on an initialized store, the Index
\* record decodes to the in-memory index, and for every key of either the
\* Data record the Index record points to is in the storage channel and
\* decodes to the in-memory queue of that key.
C29_CacheMatchesStorage ==
    InFlight = {} /\ storage_channel # None /\ index_message # None =>
        LET persisted == LoadsIndex(Payload(messages[index_message].content))
        IN  /\ persisted.ok
            /\ persisted.val = index
            /\ \A k \in IndexKeys(persisted.val) \cup IndexKeys(index) \cup DOMAIN queues :
                 /\ k \in IndexKeys(persisted.val)
                 /\ k \in DOMAIN queues
                 /\ Fetchable(messages, storage_channel, IndexGet(persisted.val, k))
                 /\ queues[k] = DecodedQueue(storage_channel, IndexGet(persisted.val, k))

\* C30: when init_storage(guild) has raised, the store's storage channel,
\* Index and Settings record pointers, index, settings and queues are what
\* they were when it was called.
C30_InitAllOrNothing ==
    \A h \in Handlers :
        hs[h].op = "init" /\ hs[h].pc = "raised" =>
            /\ storage_channel = hs[h].pre.storage_channel
            /\ index_message = hs[h].pre.index_message
            /\ settings_message = hs[h].pre.settings_message
            /\ index = hs[h].pre.index
            /\ settings = hs[h].pre.settings
            /\ queues = hs[h].pre.queues

\* ------------------------------------------------ panels and their keys
\* the commands that end with update_all_panels_for_key
PassCmds == {"queue_reset", "queue_remove", "queue_remove_n"}
\* the key a panel displays: the one between backticks in its description
Displays(msg, key) == msg.bot /\ msg.embeds /\ CodeSpan(msg.desc) = Spell(key)
\* a pass has ended and none of its calls raised
CleanPass == ui.task.pc = "done" /\ ui.task.failed = {} /\ ui.task.skipped = {}

\* C21: after the synchronization pass that follows a mutation of key, when
\* every history fetch and every edit of the pass returned, every panel of
\* the bot that displays key shows the footer for the current count(key),
\* however many panels there are for the key.
C21_PassShowsCount ==
    (ui.task.cmd \in PassCmds /\ CleanPass) =>
        \A p \in 1..Len(ui.panels) :
            Displays(ui.panels[p], ui.task.key) =>
                ui.panels[p].footer =
                    t(get_lang(settings), "footer_count", "", count(queues, ui.task.key))
\* two panels of the key in two channels, one of them with a stale footer,
\* are both rewritten by the pass after a reset
C21_Witness ==
    /\ ui.task.cmd = "queue_reset" /\ CleanPass
    /\ \E p, q \in ui.task.edited :
         /\ ui.panels[p].ch # ui.panels[q].ch
         /\ ui.panels[p].key0 = ui.task.key /\ ui.panels[q].key0 = ui.task.key
         /\ ui.task.pre.panels[p].footer # ui.task.pre.panels[q].footer
         /\ ui.panels[p].footer = ui.panels[q].footer

\* what a panel shows, and the key a view without a key recovers from it
Shown(msg) == <<msg.title, msg.desc, msg.footer, extract_key("", msg)>>
\* C22: a synchronization pass for key k leaves every panel that displays
\* another key as it was before the pass: its title, description, footer and
\* the key recovered from it, also when k is a prefix of the other key.
C22_OtherKeysUntouched ==
    (ui.task.cmd \in PassCmds /\ ui.task.pc = "done") =>
        \A p \in 1..Len(ui.task.pre.panels) :
            (\E k \in PanelKeys \ {ui.task.key} : Displays(ui.task.pre.panels[p], k)) =>
                Shown(ui.panels[p]) = Shown(ui.task.pre.panels[p])
\* the pass for a key leaves a panel of another key alone when neither its
\* description nor its title holds the marker of the pass's key
C22_UnmatchedUntouched ==
    (ui.task.cmd \in PassCmds /\ ui.task.pc = "done") =>
        \A p \in 1..Len(ui.task.pre.panels) :
            ~IsPanelFor(ui.task.pre.panels[p], ui.task.key) =>
                ui.panels[p] = ui.task.pre.panels[p]

\* the panels the pass takes for panels of its key, in the channels it read
Candidates ==
    {p \in 1..Len(ui.task.pre.panels) :
        /\ IsPanelFor(ui.task.pre.panels[p], ui.task.key)
        /\ ui.task.pre.panels[p].ch \notin ui.task.skipped}
\* C23: when the edit of one candidate panel fails during a synchronization
\* pass, the pass goes on: every other candidate, in the same channel and in
\* the channels after it, is re-rendered with the count of the key.
C23_FailedEditSkipped ==
    (ui.task.cmd \in PassCmds /\ ui.task.pc = "done") =>
        \A p \in Candidates \ ui.task.failed :
            /\ p \in ui.task.edited
            /\ ui.panels[p].footer =
                 t(get_lang(settings), "footer_count", "", count(queues, ui.task.key))
\* an edit failed, and an older panel of the same channel and a panel of the
\* next channel were re-rendered after it
C23_Witness ==
    /\ ui.task.cmd \in PassCmds /\ ui.task.pc = "done"
    /\ \E f \in ui.task.failed :
         /\ ui.panels[f] = ui.task.pre.panels[f]
         /\ \E q, r \in ui.task.edited :
              /\ q < f /\ ui.panels[q].ch = ui.panels[f].ch
              /\ ui.panels[r].ch # ui.panels[f].ch

\* C26: an admin command that scans the history of the text channels has
\* acknowledged its interaction (deferred or replied) when its first
\* ch.history is issued.
C26_AckBeforeScan == ~ui.task.early
\* queue_reset and queue_set_title have replied or deferred before their scan
C26_ResetAndSetTitleAck ==
    ui.task.cmd \in {"queue_reset", "queue_set_title"} => ~ui.task.early
\* a scan of queue_reset or queue_set_title is under way
C26_ScanUnderWay ==
    /\ ui.task.cmd \in {"queue_reset", "queue_set_title"}
    /\ ui.task.pc = "p_edit" /\ ui.task.acked

\* C27: for a panel that queue_create posted for key k, after any number of
\* re-renderings by Join, Leave, synchronization passes and queue_set_title,
\* a view that carries no key recovers k from the panel's text.
C27_KeyRoundTrip ==
    \A p \in 1..Len(ui.panels) :
        (ui.panels[p].bot /\ ui.panels[p].key0 # "") =>
            extract_key("", ui.panels[p]) = ui.panels[p].key0
\* the key that is a prefix of the other one is always recovered
C27_ShortKeyRoundTrip ==
    \A p \in 1..Len(ui.panels) :
        (ui.panels[p].bot /\ ui.panels[p].key0 = PanelKeyOrder[1]) =>
            extract_key("", ui.panels[p]) = ui.panels[p].key0
\* after a restart, a press on a re-rendered panel of the short key finds it
C27_RecoveredAfterRestart ==
    /\ ui.task.cmd = "signup" /\ ui.task.pc = "done" /\ ui.task.edited # {}
    /\ ui.panels[ui.task.panel].view = ""
    /\ ui.task.key = ui.panels[ui.task.panel].key0
    /\ ui.panels[ui.task.panel].footer = t(DEFAULT_LANG, "footer_count", "", MaxMember)

\* ------------------------------------------------------- batch notify
\* C24: during queue_notify_boss_run at most 5 send_dm tasks are between
\* acquiring and releasing the semaphore, so at most 5 direct-message sends
\* are in flight at any moment, whatever the number of targets; the
\* semaphore counts exactly those tasks.
C24_AtMostFiveInFlight ==
    /\ Cardinality(Inside(ui)) <= SemLimit
    /\ ui.sem = Cardinality(Inside(ui))
\* five sends are in flight while a sixth target waits for the semaphore
C24_Witness ==
    /\ Cardinality({i \in 1..Len(ui.sends) : ui.sends[i].pc = "send"}) = SemLimit
    /\ Waiting(ui) # {}

\* the number of entries of a list that are about uid
Listed(uid) ==
    Cardinality({j \in 1..Len(ui.report.sent_list) : ui.report.sent_list[j] = uid})
    + Cardinality({j \in 1..Len(ui.report.failed_list) : ui.report.failed_list[j][1] = uid})
\* C25: a send that fails (forbidden, HTTP error, not a member) does not stop
\* the batch: when the command ends, each of the first
\* min(max(1, min(count, 25)), length) members of the queue is listed exactly
\* once, as sent or as failed with a reason, and the reported numbers of
\* sent and failed add up to the number of targets.
C25_EveryTargetReported ==
    (ui.task.cmd = "queue_notify_boss_run" /\ ui.task.pc = "done"
     /\ get_list(queues, ui.task.key) # <<>>) =>
        LET users == get_list(queues, ui.task.key)
            n == Min(Max(1, Min(ui.task.count, MaxNotify)), Len(users))
        IN  /\ ui.report # <<>>
            /\ \A i \in 1..n : Listed(users[i]) = 1
            /\ \A i \in (n + 1)..Len(users) : Listed(users[i]) = 0
            /\ ui.report.sent = Len(ui.report.sent_list)
            /\ ui.report.failed = Len(ui.report.failed_list)
            /\ ui.report.sent + ui.report.failed = n
            /\ \A j \in 1..Len(ui.report.failed_list) :
                 ui.report.failed_list[j][2] \in
                     {"not_member", "forbidden", "http_500", "error"}
\* a batch with a member who left and a send that was refused, and a send to
\* a later target that went through
C25_Witness ==
    /\ ui.task.cmd = "queue_notify_boss_run" /\ ui.task.pc = "done"
    /\ ui.report # <<>>
    /\ \E a, b \in 1..Len(ui.report.failed_list) :
         /\ ui.report.failed_list[a][2] = "not_member"
         /\ ui.report.failed_list[b][2] = "forbidden"
         /\ \E j \in 1..Len(ui.report.sent_list) :
              /\ ui.report.sent_list[j] > ui.report.failed_list[a][1]
              /\ ui.report.sent_list[j] > ui.report.failed_list[b][1]

====
